---- MODULE Spec2Model ----
(***************************************************************************)
(* Model of the Husqvarna Automower plugin for Domoticz.                   *)
(*                                                                         *)
(*   Husqvarna.py : the cloud client (token, retrying HTTP wrapper,        *)
(*                  mower registry, actions)                               *)
(*   plugin.py    : the Domoticz plugin (heartbeat, commands, task queue,  *)
(*                  worker thread, polling scheduler)                      *)
(*                                                                         *)
(* A thread runs from one blocking point to the next in one step.  The     *)
(* blocking points are: an HTTP request waiting for its response, the      *)
(* time.sleep between two attempts, the return of _http_with_retry to its  *)
(* caller, and the worker's queue.get.                                     *)
(*                                                                         *)
(* Time is counted in units of 600 seconds (the token safety margin).      *)
(***************************************************************************)
EXTENDS Integers, Sequences, FiniteSets, TLC

(***************************************************************************)
(* Bounds of the model.                                                    *)
(***************************************************************************)
MaxTime == 2          \* the clock runs over 1..MaxTime
MaxTokenId == 1       \* distinct tokens the token endpoint hands out
MaxCalls == 3         \* operations the client harness calls in one run
MaxExpiresIn == 2     \* expires_in of a token, in time units
MaxHeartbeats == 2    \* on_heartbeat callbacks in one run
MaxCommands == 1      \* on_command callbacks in one run
MaxStops == 2         \* on_stop callbacks in one run
MaxFaults == 1        \* retryable answers (5xx) of the service in one run
MaxMowers == 3        \* devices of the registry in SpecRefresh
MaxSystemRetries == 7 \* consecutive failures (system_retries) in SpecSchedule
MaxSteps == 9         \* steps of the cutting height selector in SpecCutting
MaxTicks == 3         \* on_heartbeat callbacks in SpecRetry
\* polling ticks (heartbeats whose countdown reaches 0) in SpecOutage
MaxPolls == 7
\* on_command callbacks in SpecRace
MaxRaceCommands == 2
\* on_heartbeat callbacks in SpecRace
MaxRaceTicks == 1

(***************************************************************************)
(* Program constants.                                                      *)
(***************************************************************************)
MaxAttempts == 3      \* while retry_counter < 3
API_CALL_DELAY == 2
InitialExpiration == 0 \* datetime(2000,1,1): before every instant of the clock
ExpiryMargin == 1     \* timedelta(seconds=600), one time unit

NoneVal == "None"
STATE_OFF == "OFF"

ACTION_PARKNEXTSCHEDULE == "ParkUntilNextSchedule"
ACTION_PARKFURTHERNOTICE == "ParkUntilFurtherNotice"
ACTION_RESUMESCHEDULE == "ResumeSchedule"
ACTION_START == "Start"
ACTION_PAUSE == "Pause"
KnownActions == {ACTION_PARKNEXTSCHEDULE, ACTION_PARKFURTHERNOTICE, ACTION_PAUSE,
                 ACTION_RESUMESCHEDULE, ACTION_START}

Threads == {"worker", "caller"}

(***************************************************************************)
(* The remote service, as the client sees it.                              *)
(***************************************************************************)
\* What one HTTP attempt ends in: a status class, or "exc" for a transport
\* failure (timeout, connection error) that raises in session.get/post.
RetryableStatus == {"403", "5xx"}
ErrorStatus == {"403", "429", "4xx", "5xx"}
\* The shapes of an error response's body that _analyze_http_error tells apart.
ErrorBodies == {"errors", "message", "plain", "nonjson"}
\* The shapes of a 2xx body: a non-empty JSON document of the endpoint's kind,
\* a falsy JSON document ({} or []), or a body that is not JSON.
NoToken == [tag |-> NoneVal, id |-> 0, expires_in |-> 0]
EmptyToken == [tag |-> "empty", id |-> 0, expires_in |-> 0]
TokenBodies == [tag : {"json"}, id : 1..MaxTokenId, expires_in : 0..MaxExpiresIn]

MowerNames == {"A", "B"}
ListEntry(i, n) == [id |-> i, name |-> n]
\* Responses of the list endpoint: the {id, name} pairs under 'data'.
ListBodies == { <<>>,
                <<ListEntry("idA", "A")>>,
                <<ListEntry("idA", "A"), ListEntry("idB", "B")>>,
                <<ListEntry("idA", "A"), ListEntry("idA2", "A")>> }
\* Responses of the detail endpoint: with or without the 'data' key.
\* DetailOf: mower.state, mower.activity and settings.cuttingHeight of 'data'.
\* and mower.errorCode ("None": the key is absent).
DetailOf(s, a, h) == [hasdata |-> TRUE, state |-> s, activity |-> a, cuttingHeight |-> h,
                      errorCode |-> NoneVal]
Detail(s, a) == DetailOf(s, a, 1)
DetailBodies == { Detail(STATE_OFF, "NOT_APPLICABLE"),
                  Detail("IN_OPERATION", "MOWING"),
                  Detail("IN_OPERATION", "GOING_HOME"),
                  [Detail("ERROR", "STOPPED_IN_GARDEN") EXCEPT !.errorCode = "1"],
                  [Detail("IN_OPERATION", "MOWING") EXCEPT !.errorCode = "1"],
                  [hasdata |-> FALSE, state |-> NoneVal, activity |-> NoneVal,
                   cuttingHeight |-> 0, errorCode |-> NoneVal] }
AckBodies == {"ack"}

OkBodies(kind) ==
    CASE kind = "token"  -> TokenBodies
      [] kind = "list"   -> ListBodies
      [] kind = "detail" -> DetailBodies
      [] OTHER           -> AckBodies

Outcomes(kind) ==
    [status : {"2xx"}, body : {"json"}, val : OkBodies(kind)]
      \cup [status : {"2xx"}, body : {"empty", "nonjson"}, val : {0}]
      \cup [status : ErrorStatus, body : ErrorBodies, val : {0}]
      \cup [status : {"other", "exc"}, body : {"none"}, val : {0}]

(***************************************************************************)
(* Husqvarna.__init__ and the session.                                     *)
(***************************************************************************)
NoHeaders == [api_key |-> FALSE, accept |-> FALSE, content_type |-> "none",
              authorization |-> 0, provider |-> FALSE]
\* _create_session: headers={'x-api-key': ..., 'accept': ...}
_create_session == [NoHeaders EXCEPT !.api_key = TRUE, !.accept = TRUE]

\* Mutant: a listed device starts as a device of state OFF.
NewMower_Off(e) == [id |-> e.id, name |-> e.name, state |-> STATE_OFF, activity |-> NoneVal,
                    cutting_height |-> 0, error_state |-> NoneVal]

\* cutting_height 0: the key is absent or None (both falsy where it is read).
NewMower(e) == [id |-> e.id, name |-> e.name, state |-> NoneVal, activity |-> NoneVal,
                cutting_height |-> 0, error_state |-> NoneVal]

Husqvarna == [ mowers |-> <<>>,
               access_token |-> NoToken,
               access_token_expiration |-> InitialExpiration,
               timestamp_last_update_mower_list |-> "2000-01-01",
               error |-> NoneVal,
               api_limit_reached |-> FALSE,
               headers |-> _create_session,
               closed |-> 0 ]

(***************************************************************************)
(* The frame of a thread inside the client: which public operation it      *)
(* runs, where it stands in it, and the locals of _http_with_retry.        *)
(***************************************************************************)
IdleFrame == [ op |-> "idle", self |-> 0, name |-> NoneVal, action |-> NoneVal,
               height |-> 0,          \* set_cutting_height's height, then the payload's
               phase |-> "idle",      \* idle | token | main | done
               http |-> "none",       \* none | inflight | sleeping | returned
               kind |-> "none",       \* endpoint of the logical call
               retry_counter |-> 0, execution_status |-> FALSE,
               r |-> [status |-> "unbound", body |-> "none", val |-> 0],
               rv |-> [tag |-> NoneVal, val |-> 0],
               index |-> 0,
               ret |-> NoneVal,       \* the operation's result: "True", "False", "None", "raised"
               \* observations
               attempts |-> 0,        \* requests issued by the logical call
               retried |-> 0,         \* attempts that ended in 403, 5xx or a transport failure
               last |-> "none",       \* outcome of the last attempt
               delay |-> 0,           \* the sleep that preceded the last request
               tokres |-> "none",     \* none | ok | fail | raised: this operation's token request
               checked |-> FALSE,     \* _check_access_token_and_renew ran in this operation
               pre |-> [access_token |-> NoToken, access_token_expiration |-> 0,
                        headers |-> NoHeaders] ]

Pair(o, f) == [o |-> o, f |-> f]

Truthy(rv) == rv.tag = "json"

get_http_error(o) == o.error
are_api_limits_reached(o) == o.api_limit_reached

(***************************************************************************)
(* Husqvarna._analyze_http_error.                                          *)
(***************************************************************************)
\* The description by shape of the body; the handlers of response.json() are
\* taken as written (a body that is not JSON gives the decode-error text).
ErrorText(out) ==
    CASE out.body = "errors"  -> out.status \o ":title_detail"
      [] out.body = "message" -> out.status \o ":message"
      [] out.body = "plain"   -> out.status \o ":uncaptured"
      [] OTHER                -> out.status \o ":json_decode_error"

\* Mutant: the 429 check is dropped.
_analyze_http_error_NoLimitFlag(o, out) == [o EXCEPT !.error = ErrorText(out)]

_analyze_http_error(o, out) ==
    [o EXCEPT !.api_limit_reached = (out.status = "429"),
              !.error = ErrorText(out)]

(***************************************************************************)
(* Husqvarna._http_with_retry.                                             *)
(***************************************************************************)
\* Entry, up to the first request: the locals are reset, self.error = ''.
HttpStart(o, f, kind) ==
    Pair([o EXCEPT !.error = ""],
         [f EXCEPT !.http = "inflight", !.kind = kind, !.retry_counter = 0,
                   !.execution_status = FALSE,
                   !.r = [status |-> "unbound", body |-> "none", val |-> 0],
                   !.rv = [tag |-> NoneVal, val |-> 0],
                   !.attempts = 1, !.retried = 0, !.last = "none", !.delay = 0])

\* return r.json() if execution_status and 'r' in locals() and r is not None else None
ReturnValue(f) ==
    IF f.execution_status /\ f.r.status # "unbound"
    THEN CASE f.r.body = "json"  -> [tag |-> "json", val |-> f.r.val]
           [] f.r.body = "empty" -> [tag |-> "empty", val |-> 0]
           [] OTHER              -> [tag |-> "raise", val |-> 0]
    ELSE [tag |-> NoneVal, val |-> 0]

\* The loop leaves (break, or retry_counter reached the ceiling) and returns.
HttpLeave(o, f) == Pair(o, [f EXCEPT !.http = "returned", !.rv = ReturnValue(f)])

\* if retry_counter < 3 and not execution_status: time.sleep(...)
HttpSleep(o, f) == Pair(o, [f EXCEPT !.http = "sleeping",
                                     !.delay = API_CALL_DELAY * (f.retry_counter + 1)])

\* Mutant: the ceiling is tested with > instead of >=.
HttpRetry_OffByOne(o, f, out) ==
    LET g == [f EXCEPT !.retry_counter = f.retry_counter + 1]
    IN  IF g.retry_counter > MaxAttempts
        THEN HttpLeave(_analyze_http_error(o, out), g)
        ELSE HttpSleep(o, g)

\* Mutant: the error of the last attempt is not recorded at the ceiling.
HttpRetry_NoError(o, f, out) ==
    LET g == [f EXCEPT !.retry_counter = f.retry_counter + 1]
    IN  IF g.retry_counter >= MaxAttempts THEN HttpLeave(o, g) ELSE HttpSleep(o, g)

\* A retryable outcome: count it; at the ceiling record the error and break.
HttpRetry(o, f, out) ==
    LET g == [f EXCEPT !.retry_counter = f.retry_counter + 1]
    IN  IF g.retry_counter >= MaxAttempts
        THEN HttpLeave(_analyze_http_error(o, out), g)
        ELSE HttpSleep(o, g)

\* Mutant: every 4xx is retried like a 403.
HttpOnResponse_Retry4xx(o, f0, out) ==
    LET f == [f0 EXCEPT !.last = out.status,
                        !.retried = IF out.status \in RetryableStatus \cup {"exc"}
                                    THEN @ + 1 ELSE @,
                        !.r = IF out.status = "2xx" THEN out ELSE @]
    IN  CASE out.status = "2xx" ->
               HttpLeave([o EXCEPT !.error = NoneVal, !.api_limit_reached = FALSE],
                         [f EXCEPT !.execution_status = TRUE])
          [] out.status \in ErrorStatus -> HttpRetry(o, f, out)
          [] out.status = "other" ->
               HttpLeave([o EXCEPT !.error = "other:not_handled"], f)
          [] OTHER ->
               LET oe == [o EXCEPT !.error = "exc:connection_error"]
                   g == [f EXCEPT !.retry_counter = @ + 1]
               IN  IF g.retry_counter >= MaxAttempts THEN HttpLeave(oe, g)
                                                     ELSE HttpSleep(oe, g)

\* One pass of the loop body, from the response (or the exception) on.
HttpOnResponse(o, f0, out) ==
    LET f == [f0 EXCEPT !.last = out.status,
                        !.retried = IF out.status \in RetryableStatus \cup {"exc"}
                                    THEN @ + 1 ELSE @,
                        \* r is read again only at the return, after a 2xx
                        !.r = IF out.status = "2xx" THEN out ELSE @]
    IN  CASE out.status = "2xx" ->
               HttpLeave([o EXCEPT !.error = NoneVal, !.api_limit_reached = FALSE],
                         [f EXCEPT !.execution_status = TRUE])
          [] out.status \in RetryableStatus -> HttpRetry(o, f, out)
          [] out.status \in {"429", "4xx"} -> HttpLeave(_analyze_http_error(o, out), f)
          [] out.status = "other" ->
               HttpLeave([o EXCEPT !.error = "other:not_handled"], f)
          [] OTHER ->   \* except (TimeoutException, ConnectError, RequestError)
               LET oe == [o EXCEPT !.error = "exc:connection_error"]
                   g == [f EXCEPT !.retry_counter = @ + 1]
               IN  IF g.retry_counter >= MaxAttempts THEN HttpLeave(oe, g)
                                                     ELSE HttpSleep(oe, g)

\* The sleep is over: the loop condition holds, the next request goes out.
HttpWake(o, f) == Pair(o, [f EXCEPT !.http = "inflight", !.attempts = @ + 1])

(***************************************************************************)
(* The public operations of the client.                                    *)
(***************************************************************************)
\* The operation returns v (or raises): its locals are gone, its result stays
\* with the caller.
OpReturn(o, f, v) ==
    Pair(o, [IdleFrame EXCEPT !.op = f.op, !.self = f.self, !.phase = "done",
                              !.ret = v, !.tokres = f.tokres, !.checked = f.checked])

BoolStr(b) == IF b THEN "True" ELSE "False"

get_mower_from_name(o, name) ==
    LET hits == {i \in 1..Len(o.mowers) : o.mowers[i].name = name}
    IN  IF hits = {} THEN 0 ELSE CHOOSE i \in hits : \A j \in hits : i <= j

_find_id_from_name(o, name) ==
    IF get_mower_from_name(o, name) = 0 THEN NoneVal
    ELSE o.mowers[get_mower_from_name(o, name)].id

\* _get_access_token, up to its request.
GetAccessTokenStart(o, f) ==
    HttpStart([o EXCEPT !.headers = [NoHeaders EXCEPT !.content_type = "form"]],
              [f EXCEPT !.phase = "token",
                        !.pre = [access_token |-> o.access_token,
                                 access_token_expiration |-> o.access_token_expiration,
                                 headers |-> o.headers]],
              "token")

TokenOf(rv) ==
    IF rv.tag = "json"
    THEN [tag |-> "json", id |-> rv.val.id, expires_in |-> rv.val.expires_in]
    ELSE [tag |-> rv.tag, id |-> 0, expires_in |-> 0]

\* _get_access_token, from the return of its request on.
GetAccessTokenFinish(o, rv, now_) ==
    IF Truthy(rv)
    THEN [ok |-> TRUE,
          o |-> [o EXCEPT !.access_token = TokenOf(rv),
                          !.error = NoneVal,
                          !.access_token_expiration =
                               now_ + TokenOf(rv).expires_in - ExpiryMargin,
                          !.headers = [@ EXCEPT !.api_key = TRUE,
                                                !.authorization = TokenOf(rv).id,
                                                !.provider = TRUE,
                                                !.accept = TRUE]]]
    ELSE [ok |-> FALSE,
          o |-> [o EXCEPT !.access_token = TokenOf(rv), !.error = "bad_auth"]]

\* for index, mower in enumerate(self.mowers): the detail call of mower i, or
\* the end of the loop with status True.
DetailLoop(o, f, i) ==
    IF i > Len(o.mowers) THEN OpReturn(o, f, "True")
    ELSE HttpStart(o, [f EXCEPT !.index = i], "detail")

\* The operation proper, once the token check has returned True.
MainStart(o, f0) ==
    LET f == [f0 EXCEPT !.phase = "main"]
    IN  CASE f.op = "get_mowers" -> HttpStart(o, f, "list")
          [] f.op = "get_mowers_info" -> DetailLoop(o, f, 1)
          [] OTHER ->   \* _send_action_to_mower, set_cutting_height, set_headlight
               IF _find_id_from_name(o, f.name) # NoneVal
               THEN \* the url and the payload are built here: the name and the
                    \* action are not read again
                    HttpStart([o EXCEPT !.headers.content_type = "json"],
                              [f EXCEPT !.name = NoneVal, !.action = NoneVal],
                              IF f.op = "action" THEN "action" ELSE "settings")
               ELSE OpReturn(o, f, "False")

\* ErrorCodes.get(error_code): the static table, of which code 1 stands for
\* the known codes.
ErrorCodes(error_code) ==
    IF error_code = "1" THEN "Outside working area" ELSE NoneVal

\* Mutant: the error code is resolved whatever the state.
error_state_of_AnyState(state, error_code) ==
    IF error_code # NoneVal THEN ErrorCodes(error_code) ELSE NoneVal

\* ErrorCodes.get(error_code) if state == 'ERROR' and error_code is not None else None
error_state_of(state, error_code) ==
    IF state = "ERROR" /\ error_code # NoneVal THEN ErrorCodes(error_code) ELSE NoneVal

\* Mutant: the detail loop goes on after a failed detail call.
MainFinish_NoBreak(o, f, now_) ==
    CASE f.op = "get_mowers" ->
           IF Truthy(f.rv)
           THEN OpReturn([o EXCEPT !.mowers = [i \in 1..Len(f.rv.val) |-> NewMower(f.rv.val[i])],
                                   !.timestamp_last_update_mower_list = "today"],
                         f, "True")
           ELSE OpReturn(o, f, "False")
      [] f.op = "get_mowers_info" ->
           IF Truthy(f.rv) /\ f.rv.val.hasdata
           THEN DetailLoop([o EXCEPT !.mowers[f.index].state = f.rv.val.state,
                                     !.mowers[f.index].activity = f.rv.val.activity,
                                     !.mowers[f.index].cutting_height =
                                          f.rv.val.cuttingHeight,
                                     !.mowers[f.index].error_state =
                                          error_state_of(f.rv.val.state,
                                                         f.rv.val.errorCode)],
                           f, f.index + 1)
           ELSE DetailLoop(o, f, f.index + 1)
      [] OTHER -> OpReturn(o, f, BoolStr(Truthy(f.rv)))

\* The operation proper, from the return of its logical call on.
MainFinish(o, f, now_) ==
    CASE f.op = "get_mowers" ->
           IF Truthy(f.rv)
           THEN OpReturn([o EXCEPT !.mowers = [i \in 1..Len(f.rv.val) |-> NewMower(f.rv.val[i])],
                                   !.timestamp_last_update_mower_list = "today"],
                         f, "True")
           ELSE OpReturn(o, f, "False")
      [] f.op = "get_mowers_info" ->
           IF Truthy(f.rv) /\ f.rv.val.hasdata
           THEN DetailLoop([o EXCEPT !.mowers[f.index].state = f.rv.val.state,
                                     !.mowers[f.index].activity = f.rv.val.activity,
                                     !.mowers[f.index].cutting_height =
                                          f.rv.val.cuttingHeight,
                                     !.mowers[f.index].error_state =
                                          error_state_of(f.rv.val.state,
                                                         f.rv.val.errorCode)],
                           f, f.index + 1)
           ELSE OpReturn(o, f, "False")
      [] OTHER -> OpReturn(o, f, BoolStr(Truthy(f.rv)))

\* if datetime.now() > self.access_token_expiration
NeedsRenewal(o, now_) == now_ > o.access_token_expiration

\* _check_access_token_and_renew and what follows it in the operation.
CheckToken(o, f0, now_) ==
    LET f == [f0 EXCEPT !.checked = TRUE]
    IN  IF NeedsRenewal(o, now_) THEN GetAccessTokenStart(o, f)
        ELSE IF o.access_token.tag = NoneVal
             THEN OpReturn(o, f, "raised")   \* self.access_token.get on None
             ELSE MainStart(o, f)

\* Entry of a public operation, up to its first blocking point.
Invoke(o, f, now_) ==
    CASE f.op = "bool" -> GetAccessTokenStart(o, f)      \* __bool__
      [] f.op = "action" /\ f.action \notin KnownActions -> OpReturn(o, f, "False")
      [] OTHER -> CheckToken(o, f, now_)

\* _http_with_retry has returned (or raised out of r.json()): the operation goes on.
Resume(o, f, now_) ==
    IF f.rv.tag = "raise"
    THEN OpReturn(o, [f EXCEPT !.tokres = IF f.phase = "token" THEN "raised" ELSE @],
                  "raised")
    ELSE IF f.phase = "token"
         THEN LET res == GetAccessTokenFinish(o, f.rv, now_)
                  g == [f EXCEPT !.tokres = IF res.ok THEN "ok" ELSE "fail"]
              IN  IF f.op = "bool" THEN OpReturn(res.o, g, BoolStr(res.ok))
                  ELSE IF res.ok THEN MainStart(res.o, g)
                  ELSE OpReturn(res.o, g, "False")
         ELSE MainFinish(o, f, now_)

(***************************************************************************)
(* plugin.py: constants, tasks, the per-mower ExecutionState, the sink.     *)
(***************************************************************************)
\* DomoticzConstants.MINUTE (domoticzEx_tools): the heartbeats of one minute.
MINUTE == 2
\* Parameters['Mode5'], the configured update interval in minutes.
Mode5 == 1

LOGIN == "Login"
GET_MOWERS == "GetMowers"
GET_STATUS == "GetStatus"
START == "Start"
START_6H == "Start (6h)"
PAUSE == "Pause"
RESUME_SCHEDULE == "Resume Schedule"
PARK_UNTIL_FURTHER_NOTICE == "Park Until Further Notice"
PARK_UNTIL_NEXT_SCHEDULE == "Park Until Next Schedule"
SET_CUTTING_HEIGHT == "Set Cutting Height"

\* A task of the queue; Mower_name and Cutting_height are absent as "None" / 0.
Task(a, n, h) == [Action |-> a, Mower_name |-> n, Cutting_height |-> h]
Sentinel == Task(NoneVal, NoneVal, 0)          \* tasks_queue.put(None)

\* ExecutionState(); present tells whether the name is a key of execution_status.
ExecutionState == [present |-> TRUE, status |-> NoneVal, action |-> NoneVal,
                   Cutting_height |-> 0, retries |-> 0]
NoExecutionState == [ExecutionState EXCEPT !.present = FALSE]

\* HusqvarnaPlugin.__init__, with the threads before on_start.
HusqvarnaPlugin ==
    [ run_again |-> MINUTE,
      stop_requested |-> FALSE,
      speed_status |-> "NORMAL",
      system_retries |-> 0,
      execution_status |-> [n \in MowerNames |-> NoExecutionState],
      tasks_queue |-> <<>>,
      unfinished_tasks |-> 0,   \* tasks_queue.unfinished_tasks
      task_dones |-> 0,         \* task_done() calls since the last tasks_queue.get
      caught |-> FALSE,         \* the loop's `except Exception` ran for the last task
      \* the last two runs of _adjust_update_frequency: the branches they took
      \* and the message the last one logged ("status", "debug" or "none")
      tick |-> [prev |-> "NORMAL", regime |-> "NORMAL", logged |-> "none"],
      Devices |-> [n \in MowerNames |-> "absent"],   \* absent | ok | timedout
      CUTTING |-> [n \in MowerNames |-> -1],   \* level of unit CUTTING; -1: never written
      started |-> FALSE,
      cpc |-> "idle",       \* caller: idle | hb431 .. hb506 | stopping
      wpc |-> "get",        \* worker: get | <task>_bool | <task>_call | exited
      task |-> Sentinel ]   \* worker: the task being handled

put(p, t) == [p EXCEPT !.tasks_queue = Append(@, t), !.unfinished_tasks = @ + 1]

\* self.tasks_queue.task_done(): the count goes down by one; a call that would
\* make it negative raises ValueError and leaves it.
task_done(p) ==
    [p EXCEPT !.task_dones = @ + 1,
              !.unfinished_tasks = IF @ - 1 < 0 THEN @ ELSE @ - 1]

\* domoticzEx_tools.timeout_device(Devices): every unit is marked timed out.
timeout_device_all(p) ==
    [p EXCEPT !.Devices = [n \in MowerNames |-> IF @[n] = "absent" THEN "absent"
                                                 ELSE "timedout"]]
\* domoticzEx_tools.timeout_device(Devices, device_id=...)
timeout_device(p, n) ==
    [p EXCEPT !.Devices[n] = IF @ = "absent" THEN "absent" ELSE "timedout"]
\* domoticzEx_tools.update_device on a unit of device n
update_device(p, n) ==
    [p EXCEPT !.Devices[n] = IF @ = "absent" THEN "absent" ELSE "ok"]

\* if name not in self.execution_status: self.execution_status[name] = ExecutionState()
EnsureExecutionState(p, n) ==
    IF p.execution_status[n].present THEN p
    ELSE [p EXCEPT !.execution_status[n] = ExecutionState]

\* Mutant: a device whose state was not fetched yet counts as switched off.
are_all_mowers_off_Unfetched(o) ==
    \A i \in 1..Len(o.mowers) : o.mowers[i].state \in {STATE_OFF, NoneVal}

\* all(mower.get('state', None) == STATE_OFF for mower in self.mowers)
are_all_mowers_off(o) == \A i \in 1..Len(o.mowers) : o.mowers[i].state = STATE_OFF
\* mower.get('state') == STATE_OFF if mower else None
is_mower_off(o, name) ==
    IF get_mower_from_name(o, name) = 0 THEN NoneVal
    ELSE BoolStr(o.mowers[get_mower_from_name(o, name)].state = STATE_OFF)

(***************************************************************************)
(* on_command.                                                             *)
(***************************************************************************)
\* UnitId
UnitRUN == "RUN"
UnitCUTTING == "CUTTING"
UnitACTIONS == "ACTIONS"
\* action_map of _handle_action_command
ActionLevels == {10, 20, 30, 40, 50}
action_map(level) ==
    CASE level = 10 -> START_6H
      [] level = 20 -> PAUSE
      [] level = 30 -> RESUME_SCHEDULE
      [] level = 40 -> PARK_UNTIL_FURTHER_NOTICE
      [] OTHER      -> PARK_UNTIL_NEXT_SCHEDULE

_handle_run_command(p, device_id, mower, command) ==
    IF command = "On"
    THEN LET q == [p EXCEPT !.execution_status[device_id].status = "INITIATED",
                            !.execution_status[device_id].Cutting_height = 0,
                            !.execution_status[device_id].retries = 0]
         IN  IF mower.activity = "CHARGING"
             THEN [q EXCEPT !.execution_status[device_id].status = "DONE"]
             ELSE put(update_device([q EXCEPT !.execution_status[device_id].action = START],
                                    device_id),
                      Task(START, mower.name, 0))
    ELSE put(update_device([p EXCEPT !.execution_status[device_id].action = PARK_UNTIL_FURTHER_NOTICE,
                                     !.execution_status[device_id].status = "INITIATED",
                                     !.execution_status[device_id].Cutting_height = 0,
                                     !.execution_status[device_id].retries = 0],
                           device_id),
             Task(PARK_UNTIL_FURTHER_NOTICE, mower.name, 0))

\* Mutant: the selector level is divided by 10 without the offset of 1.
_handle_cutting_height_command_NoOffset(p, device_id, mower, level) ==
    LET cutting_height == level \div 10
    IN  [put([p EXCEPT !.execution_status[device_id].action = SET_CUTTING_HEIGHT,
                       !.execution_status[device_id].status = "INITIATED",
                       !.execution_status[device_id].retries = 0],
             Task(SET_CUTTING_HEIGHT, mower.name, cutting_height))
           EXCEPT !.execution_status[device_id].Cutting_height = cutting_height]

_handle_cutting_height_command(p, device_id, mower, level) ==
    LET cutting_height == (level \div 10) + 1
    IN  [put([p EXCEPT !.execution_status[device_id].action = SET_CUTTING_HEIGHT,
                       !.execution_status[device_id].status = "INITIATED",
                       !.execution_status[device_id].retries = 0],
             Task(SET_CUTTING_HEIGHT, mower.name, cutting_height))
           EXCEPT !.execution_status[device_id].Cutting_height = cutting_height]

_handle_action_command(p, device_id, mower, level) ==
    LET q == [p EXCEPT !.execution_status[device_id].status = "INITIATED",
                       !.execution_status[device_id].Cutting_height = 0,
                       !.execution_status[device_id].retries = 0]
    IN  IF level \in ActionLevels
        THEN IF level = 10 /\ mower.activity = "CHARGING"
             THEN [q EXCEPT !.execution_status[device_id].status = "DONE"]
             ELSE put([q EXCEPT !.execution_status[device_id].action = action_map(level)],
                      Task(action_map(level), mower.name, 0))
        ELSE q

\* on_command(device_id, unit, command, level) on the plugin state p, with the
\* client object o that husqvarna_api names (api = 0: None).
on_command(p, api, O, device_id, unit, command, level) ==
    IF p.stop_requested THEN p
    ELSE IF api = 0 THEN timeout_device(p, device_id)
    ELSE IF get_mower_from_name(O[api], device_id) = 0 THEN timeout_device(p, device_id)
    ELSE LET mower == O[api].mowers[get_mower_from_name(O[api], device_id)]
             q == EnsureExecutionState(p, device_id)
         IN  IF mower.state = STATE_OFF THEN p
             ELSE CASE unit = UnitRUN -> _handle_run_command(q, device_id, mower, command)
                    [] unit = UnitCUTTING /\ command = "Set Level" ->
                         _handle_cutting_height_command(q, device_id, mower, level)
                    [] unit = UnitACTIONS /\ command = "Set Level" /\ level # 0 ->
                         _handle_action_command(q, device_id, mower, level)
                    [] OTHER -> q

(***************************************************************************)
(* on_heartbeat, _retry_failed_commands, _adjust_update_frequency.          *)
(***************************************************************************)
\* The retry of one mower's failed command.
RetryOne(p, mower_name) ==
    LET e == p.execution_status[mower_name]
    IN  IF e.present /\ e.status = "ERROR" /\ e.retries < 2
        THEN LET q == [p EXCEPT !.execution_status[mower_name].status = "INITIATED",
                                !.execution_status[mower_name].retries = @ + 1]
             IN  IF e.action # NoneVal
                 THEN put(q, Task(e.action, mower_name,
                                  IF e.action = SET_CUTTING_HEIGHT THEN e.Cutting_height ELSE 0))
                 ELSE q
        ELSE p

\* for mower in self.husqvarna_api.mowers, from mower i on
RECURSIVE RetryLoop(_, _, _)
RetryLoop(p, mowers, i) ==
    IF i > Len(mowers) THEN p
    ELSE RetryLoop(RetryOne(p, mowers[i].name), mowers, i + 1)

\* self.run_again = delay
\* if self.speed_status != speed: Domoticz.Status(...); self.speed_status = speed
SetSpeed(p, delay, speed) ==
    [p EXCEPT !.run_again = delay, !.speed_status = speed,
              !.tick = [prev |-> @.regime, regime |-> speed,
                        logged |-> IF p.speed_status # speed THEN "status" ELSE "none"]]

\* The homing branch: the delay is halved, speed_status stays, Domoticz.Debug.
SpeedUp(p, delay) ==
    [p EXCEPT !.run_again = delay,
              !.tick = [prev |-> @.regime, regime |-> "GOING_HOME", logged |-> "debug"]]

Min(a, b) == IF a <= b THEN a ELSE b
Max(a, b) == IF a >= b THEN a ELSE b

\* The places of on_heartbeat where the caller tests the truth of
\* self.husqvarna_api, by line of plugin.py.
HbStages == {"hb431", "hb440", "hb448", "hb490", "hb498", "hb506"}

\* The heartbeat, from one truth test of self.husqvarna_api to the next one.
\* HbTest arrives at the test of `stage`: None is falsy at once, an instance
\* is asked (__bool__), which is where the caller stops.  HbAfter goes on with
\* the answer.  api and O are husqvarna_api and the instances as read now;
\* night tells whether datetime.now().hour is in 22..23 or 0..5.
RECURSIVE HbAfter(_, _, _, _, _, _)
HbTest(stage, p, api, O, night) ==
    IF api = 0 THEN HbAfter(stage, FALSE, p, api, O, night)
    ELSE [p EXCEPT !.cpc = stage]

\* _adjust_update_frequency, from its first test on.
Adjust(p, api, O, night) ==
    IF p.system_retries > 5
    THEN SetSpeed(p, Min(12 * 60 * MINUTE, p.system_retries * MINUTE * Mode5), "SYSTEM_ERROR")
    ELSE HbTest("hb490", p, api, O, night)

HbAfter(stage, truth, p, api, O, night) ==
    IF truth /\ api = 0 THEN [p EXCEPT !.cpc = "idle"]   \* AttributeError on None
    ELSE CASE stage = "hb431" ->
                HbTest("hb440",
                       put(IF truth /\ O[api].timestamp_last_update_mower_list = "2000-01-01"
                           THEN put(p, Task(GET_MOWERS, NoneVal, 0)) ELSE p,
                           Task(GET_STATUS, NoneVal, 0)),
                       api, O, night)
           [] stage = "hb440" ->
                IF truth /\ O[api].mowers # <<>>
                THEN HbTest("hb448", p, api, O, night)
                ELSE Adjust(p, api, O, night)
           [] stage = "hb448" ->
                IF truth /\ O[api].mowers # <<>>
                THEN Adjust(RetryLoop(p, O[api].mowers, 1), api, O, night)
                ELSE Adjust(p, api, O, night)
           [] stage = "hb490" ->
                IF truth /\ are_api_limits_reached(O[api])
                THEN SetSpeed(p, Max(60 * MINUTE, p.run_again), "LIMITS_EXCEEDED")
                ELSE HbTest("hb498", p, api, O, night)
           [] stage = "hb498" ->
                IF truth /\ are_all_mowers_off(O[api])
                THEN SetSpeed(p, 60 * MINUTE, "ALL_OFF")
                ELSE HbTest("hb506", p, api, O, night)
           [] OTHER ->   \* hb506
                IF truth /\ \E i \in 1..Len(O[api].mowers) : O[api].mowers[i].activity = "GOING_HOME"
                THEN SpeedUp(p, (MINUTE * Mode5) \div 2)
                ELSE IF night THEN SetSpeed(p, MINUTE * 180, "NIGHT")
                     ELSE SetSpeed(p, MINUTE * Mode5, "NORMAL")

\* on_heartbeat, up to its first truth test of self.husqvarna_api.
on_heartbeat(p, api, O, night) ==
    IF p.stop_requested THEN p
    ELSE LET q == [p EXCEPT !.run_again = @ - 1]
         IN  IF q.run_again <= 0
             THEN HbTest("hb431",
                         IF api = 0 THEN put(q, Task(LOGIN, NoneVal, 0)) ELSE q,
                         api, O, night)
             ELSE q

(***************************************************************************)
(* The worker: _handle_tasks and the task handlers.                        *)
(***************************************************************************)
\* The client operation that carries out a command task.
ClientOpOf(task) ==
    IF task.Action = SET_CUTTING_HEIGHT THEN "set_cutting_height" ELSE "action"
ClientActionOf(task) ==
    CASE task.Action \in {START, START_6H} -> ACTION_START
      [] task.Action = PARK_UNTIL_FURTHER_NOTICE -> ACTION_PARKFURTHERNOTICE
      [] task.Action = PARK_UNTIL_NEXT_SCHEDULE -> ACTION_PARKNEXTSCHEDULE
      [] task.Action = PAUSE -> ACTION_PAUSE
      [] task.Action = RESUME_SCHEDULE -> ACTION_RESUMESCHEDULE
      [] OTHER -> NoneVal

\* The worker takes the next task of its loop.
\* The handling of a task has ended (by return or by a caught exception):
\* the finally clause marks it complete, the loop goes back to queue.get.
NextTask(p) == task_done([p EXCEPT !.wpc = "get", !.task = Sentinel])
\* The sentinel: task_done() of line 551, break, and the finally clause.
ExitLoop(p) == task_done(task_done([p EXCEPT !.wpc = "exited", !.task = Sentinel]))

\* Mutant: the list refresh gives every listed device a fresh ExecutionState.
RECURSIVE InitStates_Reset(_, _, _)
InitStates_Reset(p, mowers, i) ==
    IF i > Len(mowers) THEN p
    ELSE InitStates_Reset([p EXCEPT !.execution_status[mowers[i].name] = ExecutionState],
                          mowers, i + 1)

\* for mower in self.husqvarna_api.mowers: execution_status is initialised
RECURSIVE InitStates(_, _, _)
InitStates(p, mowers, i) ==
    IF i > Len(mowers) THEN p
    ELSE InitStates(EnsureExecutionState(p, mowers[i].name), mowers, i + 1)

\* _update_mower_devices: the units are created when missing, then updated.
\* if mower.get('cutting_height'):
\*     update_device(False, Devices, mower_name, UnitId.CUTTING, 2, 10 * (h - 1), ...)
_update_mower_devices(p, mower) ==
    [p EXCEPT !.Devices[mower.name] = "ok",
              !.CUTTING[mower.name] = IF mower.cutting_height # 0
                                      THEN 10 * (mower.cutting_height - 1) ELSE @]

RECURSIVE UpdateLoop(_, _, _)
UpdateLoop(p, mowers, i) ==
    IF i > Len(mowers) THEN p
    ELSE UpdateLoop(_update_mower_devices(p, mowers[i]), mowers, i + 1)

\* _handle_login_task, after the truth test of the new instance.
LoginDone(p, ret) ==
    CASE ret = "True"  -> [p EXCEPT !.system_retries = 0]
      [] ret = "False" -> timeout_device_all([p EXCEPT !.system_retries = @ + 1])
      [] OTHER         -> p      \* raised: caught by _handle_tasks

\* _handle_get_mowers_task, after get_mowers() returned ret.
GetMowersDone(p, o, ret) ==
    CASE ret = "True"  -> InitStates([p EXCEPT !.system_retries = 0], o.mowers, 1)
      [] ret = "False" -> timeout_device_all([p EXCEPT !.system_retries = @ + 1])
      [] OTHER         -> p

\* _handle_get_status_task, after get_mowers_info() returned ret.
GetStatusDone(p, o, ret) ==
    CASE ret = "True"  ->
           UpdateLoop(IF o.mowers = <<>>
                      THEN timeout_device_all([p EXCEPT !.system_retries = 1])
                      ELSE [p EXCEPT !.system_retries = 0],
                      o.mowers, 1)
      [] ret = "False" -> timeout_device_all([p EXCEPT !.system_retries = @ + 1])
      [] OTHER         -> p

\* _handle_mower_command_task, after the client operation returned ret
\* ("None": no operation was called).
CommandDone(p, ret) ==
    LET n == p.task.Mower_name
    IN  CASE ret = "None"  -> [p EXCEPT !.run_again = MINUTE \div 2]
          [] ret = "True"  -> [p EXCEPT !.execution_status[n].status = "DONE",
                                        !.run_again = MINUTE \div 2]
          [] ret = "False" -> [timeout_device(p, n)
                                 EXCEPT !.execution_status[n].status = "ERROR",
                                        !.run_again = MINUTE \div 2]
          [] OTHER         -> [p EXCEPT !.execution_status[n].status = "ERROR"]

(***************************************************************************)
(* State.                                                                  *)
(***************************************************************************)
VARIABLES
    objs,            \* the Husqvarna instances created so far, by identity
    husqvarna_api,   \* plugin.husqvarna_api: 0 (None) or an index of objs
    fr,              \* the frame of each thread inside the client
    now,             \* datetime.now()
    plugin,          \* the other fields of HusqvarnaPlugin, the queue, the sink
                     \* and the position of the two threads in plugin.py
    ncalls,          \* SpecClient: the operations called so far
    env              \* Spec: the callbacks Domoticz has made so far

clientVars == <<objs, husqvarna_api, fr, now, ncalls>>
vars == <<objs, husqvarna_api, fr, now, plugin, ncalls, env>>

Busy(t) == fr[t].phase \in {"token", "main"}

\* The steps of a thread inside the client.
Apply(t, res) ==
    /\ objs' = [objs EXCEPT ![res.f.self] = res.o]
    /\ fr' = [fr EXCEPT ![t] = res.f]

\* The request of thread t ends in one of the outcomes S.
HttpResponseIn(t, S) ==
    /\ fr[t].http = "inflight"
    /\ \E out \in S : Apply(t, HttpOnResponse(objs[fr[t].self], fr[t], out))
    /\ UNCHANGED <<husqvarna_api, now, plugin, ncalls, env>>

HttpResponse(t) == HttpResponseIn(t, Outcomes(fr[t].kind))

HttpWakeUp(t) ==
    /\ fr[t].http = "sleeping"
    /\ Apply(t, HttpWake(objs[fr[t].self], fr[t]))
    /\ UNCHANGED <<husqvarna_api, now, plugin, ncalls, env>>

HttpReturn(t) ==
    /\ fr[t].http = "returned"
    /\ Apply(t, Resume(objs[fr[t].self], fr[t], now))
    /\ UNCHANGED <<husqvarna_api, now, plugin, ncalls, env>>

\* The next step of thread t reads the clock: the entry of an operation
\* (_check_access_token_and_renew) or the tail of _get_access_token.
ReadsClock(t) == ~Busy(t) \/ (fr[t].phase = "token" /\ fr[t].http = "returned")

\* Time passes.  A step that does not read the clock commutes with the passing
\* of time, so the clock is advanced only right before a step that reads it.
Tick(running) ==
    /\ now < MaxTime
    /\ \E t \in running : ReadsClock(t)
    /\ now' = now + 1
    /\ UNCHANGED <<objs, husqvarna_api, fr, plugin, ncalls, env>>

(***************************************************************************)
(* SpecClient: one Husqvarna instance driven by one thread that calls its  *)
(* public operations one after the other, with any arguments, against a    *)
(* service that answers anything, while the clock advances.                *)
(***************************************************************************)
NoCallbacks == [heartbeats |-> 0, commands |-> 0, stops |-> 0, faults |-> 0]

ClientOps == {"bool", "get_mowers", "get_mowers_info", "action",
              "set_cutting_height", "set_headlight"}
\* The client treats the known actions alike but for Start's duration.
ClientActions == {ACTION_START, ACTION_PAUSE, "Bogus"}

InitClient ==
    /\ objs = <<Husqvarna>>
    /\ husqvarna_api = 1
    /\ fr = [t \in Threads |-> IdleFrame]
    /\ now = 1
    /\ plugin = HusqvarnaPlugin
    /\ ncalls = 0
    /\ env = NoCallbacks

ClientCall ==
    /\ ~Busy("worker")
    /\ ncalls < MaxCalls
    /\ ncalls' = ncalls + 1
    /\ \E op \in ClientOps, name \in MowerNames, action \in ClientActions :
          /\ (op = "action") \/ (action = ACTION_START)
          /\ (op \in {"action", "set_cutting_height", "set_headlight"}) \/ (name = "A")
          /\ Apply("worker",
                   Invoke(objs[husqvarna_api],
                          [IdleFrame EXCEPT !.op = op, !.self = husqvarna_api,
                                            !.name = name, !.action = action],
                          now))
    /\ UNCHANGED <<husqvarna_api, now, plugin, env>>

NextClient ==
    \/ ClientCall
    \/ HttpResponse("worker")
    \/ HttpWakeUp("worker")
    \/ HttpReturn("worker")
    \/ Tick({"worker"})

SpecClient == InitClient /\ [][NextClient]_vars

(***************************************************************************)
(* Spec: the plugin.  Domoticz calls on_start, then on_heartbeat,           *)
(* on_command and on_stop one at a time on the caller thread; the worker    *)
(* thread runs _handle_tasks.  The service answers the requests of both.    *)
(* A thread's step runs to its next blocking point: a request waiting for   *)
(* its answer, a sleep, queue.get, or the return to Domoticz.  A run spans  *)
(* a few heartbeats, less than one unit of the clock, so the clock stands   *)
(* still.                                                                  *)
(***************************************************************************)
\* The answers of the service in Spec.
PluginListBodies == { <<>>, <<ListEntry("idA", "A")>> }
PluginDetailBodies == { Detail(STATE_OFF, "NOT_APPLICABLE"), Detail("IN_OPERATION", "MOWING") }
PluginOutcomes(kind) ==
    { out \in Outcomes(kind) :
        \/ /\ out.status = "2xx" /\ out.body = "json"
           /\ kind = "token"  => out.val.expires_in = MaxExpiresIn
           /\ kind = "list"   => out.val \in PluginListBodies
           /\ kind = "detail" => out.val \in PluginDetailBodies
        \/ out.status \in {"429", "5xx"} /\ out.body = "message" }

\* The hour of datetime.now() matters to the caller only.
Nights(t) == IF t = "caller" THEN BOOLEAN ELSE {FALSE}

\* The commands Domoticz sends: (unit, command, level).
PluginCommands == { <<UnitRUN, "On", 0>>, <<UnitCUTTING, "Set Level", 10>>,
                    <<UnitACTIONS, "Set Level", 20>> }

\* The state a thread works on: the instances, husqvarna_api, the frames, the
\* plugin and the clock as it reads it.
Cur == [objs |-> objs, api |-> husqvarna_api, fr |-> fr, p |-> plugin, now |-> now]
Commit(S) ==
    /\ objs' = S.objs
    /\ husqvarna_api' = S.api
    /\ fr' = S.fr
    /\ plugin' = S.p

Leave(S, t, res) == [S EXCEPT !.objs[res.f.self] = res.o, !.fr[t] = res.f]

\* Thread t calls operation op of the instance self.husqvarna_api.
CallWith(S, t, op, name, action, height) ==
    Leave(S, t, Invoke(S.objs[S.api],
                       [IdleFrame EXCEPT !.op = op, !.self = S.api,
                                         !.name = name, !.action = action,
                                         !.height = height],
                       S.now))
Call(S, t, op, name, action) == CallWith(S, t, op, name, action, 0)

\* The caller is where S.p.cpc says: at a truth test of self.husqvarna_api
\* (__bool__ is entered), or back in Domoticz.
EnterCaller(S) ==
    IF S.p.cpc \in HbStages THEN Call(S, "caller", "bool", NoneVal, NoneVal)
    ELSE [S EXCEPT !.fr["caller"] = IdleFrame]

\* The caller runs on from the return of _http_with_retry to the point where
\* it waits again: __bool__ returns to the heartbeat, which goes on to its
\* next truth test or to its end.
RECURSIVE RunCaller(_, _)
RunCaller(S, night) ==
    LET f == S.fr["caller"]
    IN  IF f.http = "returned"
        THEN RunCaller(Leave(S, "caller", Resume(S.objs[f.self], f, S.now)), night)
        ELSE IF f.phase = "done" /\ S.p.cpc \in HbStages
        THEN RunCaller(EnterCaller(
                 [S EXCEPT !.p = IF f.ret = "raised"
                                 THEN [S.p EXCEPT !.cpc = "idle"]
                                 ELSE HbAfter(S.p.cpc, f.ret = "True",
                                              [S.p EXCEPT !.cpc = "idle"],
                                              S.api, S.objs, night)]), night)
        ELSE S

\* The worker is where S.p.wpc says: it enters a client operation, or it is
\* back at queue.get (or has exited).
EnterWorker(S) ==
    CASE S.p.wpc \in {"stop_bool", "login_bool", "gm_bool", "gs_bool", "cmd_bool"} ->
           Call(S, "worker", "bool", NoneVal, NoneVal)
      [] S.p.wpc = "gm_call" -> Call(S, "worker", "get_mowers", NoneVal, NoneVal)
      [] S.p.wpc = "gs_call" -> Call(S, "worker", "get_mowers_info", NoneVal, NoneVal)
      [] S.p.wpc = "cmd_call" ->
           CallWith(S, "worker", ClientOpOf(S.p.task), S.p.task.Mower_name,
                    ClientActionOf(S.p.task), S.p.task.Cutting_height)
      [] OTHER -> [S EXCEPT !.fr["worker"] = IdleFrame]

\* task = self.tasks_queue.get(block=True), and the task's handler up to its
\* truth test of self.husqvarna_api.
Dequeue(S) ==
    LET task == Head(S.p.tasks_queue)
        p == [S.p EXCEPT !.tasks_queue = Tail(@), !.task = task, !.task_dones = 0,
                         !.caught = FALSE]
    IN  CASE task = Sentinel ->
               IF S.api = 0
               THEN [S EXCEPT !.p = ExitLoop(p)]
               ELSE [S EXCEPT !.p = [p EXCEPT !.wpc = "stop_bool"]]
          [] task.Action = LOGIN ->
               \* self.husqvarna_api = Husqvarna.Husqvarna(...)
               [S EXCEPT !.objs = Append(@, Husqvarna), !.api = Len(S.objs) + 1,
                         !.p = [p EXCEPT !.wpc = "login_bool"]]
          [] OTHER ->
               IF S.api = 0 THEN [S EXCEPT !.p = NextTask(p)]
               ELSE [S EXCEPT !.p = [p EXCEPT !.wpc =
                                        CASE task.Action = GET_MOWERS -> "gm_bool"
                                          [] task.Action = GET_STATUS -> "gs_bool"
                                          [] OTHER -> "cmd_bool"]]

\* _handle_mower_command_task, from the truth test (which was true) to the
\* client operation.
CommandGoesOn(p, o) ==
    IF p.task.Mower_name = NoneVal \/ is_mower_off(o, p.task.Mower_name) = "True"
    THEN NextTask(p)
    ELSE LET q == EnsureExecutionState(p, p.task.Mower_name)
         IN  IF p.task.Action = SET_CUTTING_HEIGHT /\ p.task.Cutting_height = 0
             THEN NextTask(CommandDone(q, "None"))
             ELSE [q EXCEPT !.wpc = "cmd_call"]

\* The client has returned ret to the worker's handler.
AfterCall(S, ret) ==
    LET o == S.objs[S.api]
        p == S.p
    IN  CASE p.wpc = "stop_bool" ->
               IF ret = "True"      \* close(); self.husqvarna_api = None
               THEN [S EXCEPT !.objs[S.api].closed = @ + 1, !.api = 0,
                              !.p = ExitLoop(p)]
               ELSE IF ret = "False"
               THEN [S EXCEPT !.p = ExitLoop(p)]
               ELSE [S EXCEPT !.p = NextTask(p)]    \* raised: the loop goes on
          [] p.wpc = "login_bool" -> [S EXCEPT !.p = NextTask(LoginDone(p, ret))]
          [] p.wpc \in {"gm_bool", "gs_bool", "cmd_bool"} ->
               [S EXCEPT !.p = IF ret # "True" THEN NextTask(p)
                               ELSE CASE p.wpc = "gm_bool" -> [p EXCEPT !.wpc = "gm_call"]
                                      [] p.wpc = "gs_bool" -> [p EXCEPT !.wpc = "gs_call"]
                                      [] OTHER -> CommandGoesOn(p, o)]
          [] p.wpc = "gm_call" -> [S EXCEPT !.p = NextTask(GetMowersDone(p, o, ret))]
          [] p.wpc = "gs_call" -> [S EXCEPT !.p = NextTask(GetStatusDone(p, o, ret))]
          [] OTHER -> [S EXCEPT !.p = NextTask(CommandDone(p, ret))]     \* cmd_call

\* Mutant: an exception of a handler ends the worker loop.
ExceptClause_Crash(S0, S1, ret) ==
    IF ret = "raised" /\ S0.p.wpc # "cmd_call"
    THEN [S1 EXCEPT !.p.caught = TRUE, !.p.wpc = "exited"]
    ELSE S1

\* except Exception as e: Domoticz.Error("Unexpected error in task handler").
\* S0 is the state in which the client returned ret, S1 the state the
\* handler (or the exception) has led to; an exception inside the try of
\* _handle_mower_command_task is caught there and does not come here.
ExceptClause(S0, S1, ret) ==
    IF ret = "raised" /\ S0.p.wpc # "cmd_call"
    THEN [S1 EXCEPT !.p.caught = TRUE]
    ELSE S1

\* The worker runs on to the point where it waits again: a request, a sleep
\* or queue.get.
RECURSIVE RunWorker(_)
RunWorker(S) ==
    LET f == S.fr["worker"]
    IN  IF f.http = "returned"
        THEN RunWorker(Leave(S, "worker", Resume(S.objs[f.self], f, S.now)))
        ELSE IF f.phase = "done" /\ S.p.wpc \notin {"get", "exited"}
        THEN RunWorker(EnterWorker(ExceptClause(S, AfterCall(S, f.ret), f.ret)))
        ELSE S

Run(t, S, night) == IF t = "caller" THEN RunCaller(S, night) ELSE RunWorker(S)

OnStart ==
    /\ ~plugin.started /\ plugin.cpc = "idle"
    /\ plugin' = put(put(put([plugin EXCEPT !.started = TRUE],
                             Task(LOGIN, NoneVal, 0)),
                         Task(GET_MOWERS, NoneVal, 0)),
                     Task(GET_STATUS, NoneVal, 0))
    /\ UNCHANGED <<objs, husqvarna_api, fr, now, ncalls, env>>

OnHeartbeat ==
    /\ plugin.started /\ plugin.cpc = "idle"
    /\ env.heartbeats < MaxHeartbeats
    /\ env' = [env EXCEPT !.heartbeats = @ + 1]
    /\ \E night \in BOOLEAN :
          Commit(EnterCaller([Cur EXCEPT !.p = on_heartbeat(plugin, husqvarna_api, objs, night)]))
    /\ UNCHANGED <<now, ncalls>>

OnCommand ==
    /\ plugin.started /\ plugin.cpc = "idle"
    /\ env.commands < MaxCommands
    /\ env' = [env EXCEPT !.commands = @ + 1]
    /\ \E device_id \in MowerNames, c \in PluginCommands :
          plugin' = on_command(plugin, husqvarna_api, objs, device_id, c[1], c[2], c[3])
    /\ UNCHANGED <<objs, husqvarna_api, fr, now, ncalls>>

\* on_stop, up to the join of the worker thread.
OnStop ==
    /\ plugin.started /\ plugin.cpc = "idle"
    /\ env.stops < MaxStops
    /\ env' = [env EXCEPT !.stops = @ + 1]
    /\ plugin' = put([plugin EXCEPT !.stop_requested = TRUE, !.cpc = "stopping"], Sentinel)
    /\ UNCHANGED <<objs, husqvarna_api, fr, now, ncalls>>

\* on_stop returns: the worker has exited, or the waits (10 s, then 70 s) ran out.
OnStopReturns ==
    /\ plugin.cpc = "stopping"
    /\ plugin' = [plugin EXCEPT !.cpc = "idle"]
    /\ UNCHANGED <<objs, husqvarna_api, fr, now, ncalls, env>>

WorkerGet ==
    /\ plugin.started /\ plugin.wpc = "get" /\ plugin.tasks_queue # <<>>
    /\ Commit(RunWorker(EnterWorker(Dequeue(Cur))))
    /\ UNCHANGED <<now, ncalls, env>>

\* The request of thread t ends, and the thread runs on.
PluginHttpResponse(t) ==
    /\ fr[t].http = "inflight"
    /\ \E out \in PluginOutcomes(fr[t].kind), night \in Nights(t) :
          /\ out.status \in RetryableStatus => env.faults < MaxFaults
          /\ env' = [env EXCEPT !.faults = IF out.status \in RetryableStatus
                                            THEN @ + 1 ELSE @]
          /\ Commit(Run(t, Leave(Cur, t, HttpOnResponse(objs[fr[t].self], fr[t], out)), night))
    /\ UNCHANGED <<now, ncalls>>

\* The sleep of thread t is over: its next request goes out.
PluginHttpWakeUp(t) ==
    /\ fr[t].http = "sleeping"
    /\ Commit(Leave(Cur, t, HttpWake(objs[fr[t].self], fr[t])))
    /\ UNCHANGED <<now, ncalls, env>>

Init ==
    /\ objs = <<>>
    /\ husqvarna_api = 0
    /\ fr = [t \in Threads |-> IdleFrame]
    /\ now = 1
    /\ plugin = HusqvarnaPlugin
    /\ ncalls = 0
    /\ env = NoCallbacks

Next ==
    \/ OnStart
    \/ OnHeartbeat
    \/ OnCommand
    \/ OnStop
    \/ OnStopReturns
    \/ WorkerGet
    \/ \E t \in Threads : PluginHttpResponse(t)
    \/ \E t \in Threads : PluginHttpWakeUp(t)

Spec == Init /\ [][Next]_vars

(***************************************************************************)
(* Properties of the client, checked under SpecClient.                     *)
(***************************************************************************)
W == fr["worker"]
WObj == objs[husqvarna_api]
NonEmpty(e) == e \notin {NoneVal, ""}
\* The descriptions that name outcome s.
DescriptionsOf(s) == { s \o ":title_detail", s \o ":message", s \o ":uncaptured",
                       s \o ":json_decode_error", s \o ":not_handled",
                       s \o ":connection_error" }
\* This step is the entry of an operation that starts with the token check.
CheckedCall == ncalls' = ncalls + 1 /\ fr'["worker"].checked
TokenRequested(f) == f.phase = "token" \/ f.tokres # "none"

\* C3: the token check that precedes an authenticated operation performs a
\* token request iff now >= T or no token is held; otherwise it changes neither
\* the token nor its expiry instant.
C3_TokenRequestIffExpiredOrNoToken ==
    [][ CheckedCall =>
          /\ TokenRequested(fr'["worker"])
               <=> (now >= WObj.access_token_expiration \/ WObj.access_token.tag = NoneVal)
          /\ ~TokenRequested(fr'["worker"]) =>
               /\ WObj'.access_token = WObj.access_token
               /\ WObj'.access_token_expiration = WObj.access_token_expiration
      ]_clientVars

\* C4: a failed token request leaves the held token, its expiry instant and
\* the installed headers as they were before the request, records an error
\* description and makes the operation return failure.
C4_FailedTokenRequestLeavesToken ==
    [][ (W.phase = "token" /\ W.http = "returned" /\ W.rv.tag = NoneVal
            /\ fr'["worker"] # W) =>
          /\ WObj'.access_token = W.pre.access_token
          /\ WObj'.access_token_expiration = W.pre.access_token_expiration
          /\ WObj'.headers = W.pre.headers
          /\ NonEmpty(get_http_error(WObj'))
          /\ fr'["worker"].ret = "False"
      ]_clientVars

\* C5: one logical call of _http_with_retry issues at most 3 HTTP requests:
\* after the third request's outcome it neither sleeps nor sends again.
C5_AtMostThreeRequests ==
    \A t \in Threads :
        /\ fr[t].attempts <= 3
        /\ fr[t].http = "sleeping" => fr[t].attempts < 3
C5_Witness ==
    W.http = "returned" /\ W.attempts = 3 /\ W.retried = 3 /\ W.last = "exc"

\* C6: a logical call whose first k attempts (k in 0..2) end in a retryable
\* outcome and whose attempt k+1 returns 2xx returns success after exactly
\* k+1 attempts.
C6_SuccessAfterRetries ==
    \A t \in Threads :
        (fr[t].http = "returned" /\ fr[t].last = "2xx") =>
            /\ fr[t].retried \in 0..2
            /\ fr[t].attempts = fr[t].retried + 1
            /\ fr[t].rv.tag \in {"json", "empty"}   \* a parsed body is returned

C9_Every2xxIsSuccess ==
    \A t \in Threads :
        (fr[t].http = "returned" /\ fr[t].last = "2xx") =>
            /\ ~are_api_limits_reached(objs[fr[t].self])
            /\ get_http_error(objs[fr[t].self]) = NoneVal
            /\ Truthy(fr[t].rv)

\* C10: when a logical call returns failure get_http_error is a non-empty
\* description of the final attempt's outcome; when it returns success
\* get_http_error is None.
C10_ErrorDescribesFinalAttempt ==
    \A t \in Threads :
        fr[t].http = "returned" =>
            /\ fr[t].rv.tag = NoneVal =>
                 /\ NonEmpty(get_http_error(objs[fr[t].self]))
                 /\ get_http_error(objs[fr[t].self]) \in DescriptionsOf(fr[t].last)
            /\ fr[t].rv.tag \in {"json", "empty"} =>
                 get_http_error(objs[fr[t].self]) = NoneVal
C10_Witness ==
    /\ W.http = "returned" /\ W.rv.tag = NoneVal /\ W.attempts = 3
    /\ W.last = "5xx" /\ WObj.error = "5xx:title_detail"

(***************************************************************************)
(* Properties of the plugin, checked under Spec.                           *)
(***************************************************************************)
InFlight == {t \in Threads : fr[t].http = "inflight"}

\* C1: in every reachable state at most one remote HTTP call is in flight,
\* counting the calls of the worker thread and of the caller thread together.
C1_AtMostOneCallInFlight == Cardinality(InFlight) <= 1

\* C2: the caller never performs a network call: during on_heartbeat (with
\* its retry pass and its scheduler recomputation) and on_command the caller
\* thread never enters a logical call of the client.
C2_CallerNeverCallsNetwork == fr["caller"].http = "none" /\ fr["caller"].attempts = 0

\* This step is the entry of one of the client's action methods.
ActionCall == ncalls' = ncalls + 1 /\ fr'["worker"].op = "action"
\* The call has ended in failure without a request.
FailedOffline(f) ==
    f.phase = "done" /\ f.ret = "False" /\ f.http = "none" /\ f.attempts = 0
             /\ f.tokres = "none"

\* C12: an action sent through the client's action methods to a device whose
\* last known state is OFF returns failure without any request, neither a
\* POST nor a token request.  (Stated for a registry in which every name of
\* MowerNames is a device that is OFF, so that the call's device is OFF.)
C12_OffDeviceNeverReachesNetwork ==
    [][ (ActionCall /\ \A n \in MowerNames : is_mower_off(WObj, n) = "True")
            => FailedOffline(fr'["worker"]) ]_vars

\* This step is the entry of an action or a settings method of the client.
CommandCall ==
    /\ ncalls' = ncalls + 1
    /\ fr'["worker"].op \in {"action", "set_cutting_height"}

\* C13: an action or a settings command for a name that is not in the
\* registry fails with zero requests, whatever the token's expiry state.
\* (Stated for a registry that holds no name of MowerNames, so that the
\* call's name is unknown.)
C13_UnknownNameNeverReachesNetwork ==
    [][ (CommandCall /\ \A n \in MowerNames : get_mower_from_name(WObj, n) = 0)
            => /\ fr'["worker"].phase = "done" /\ fr'["worker"].ret = "False"
               /\ fr'["worker"].attempts = 0
               /\ ~TokenRequested(fr'["worker"]) ]_vars

\* C14: whenever an action method or set_cutting_height has returned false
\* (unknown action, unknown device, token failure or HTTP failure), a
\* non-empty error description is recorded and returned by get_http_error.
C14_FailureRecordsError ==
    (W.phase = "done" /\ W.op \in {"action", "set_cutting_height"} /\ W.ret = "False")
        => NonEmpty(get_http_error(WObj))

(***************************************************************************)
(* SpecRefresh: one status refresh (get_mowers_info) of a logged-in client  *)
(* whose registry holds 1..MaxMowers devices with values of an earlier      *)
(* refresh, against a service that answers anything.                        *)
(***************************************************************************)
\* The registry before the refresh.  The values of devices 2 and 3 are none
\* the detail endpoint hands out, so that an update shows.
OldMowers ==
    [i \in 1..MaxMowers |->
       [id |-> "id" \o ToString(i), name |-> "M" \o ToString(i),
        state |-> IF i = 1 THEN STATE_OFF ELSE "PAUSED",
        activity |-> IF i = 1 THEN "NOT_APPLICABLE" ELSE "STOPPED_IN_GARDEN",
        cutting_height |-> 2, error_state |-> NoneVal]]

\* The client after a successful token request at the first instant.
LoggedIn ==
    GetAccessTokenFinish(GetAccessTokenStart(Husqvarna, IdleFrame).o,
                         [tag |-> "json", val |-> [tag |-> "json", id |-> 1,
                                                   expires_in |-> MaxExpiresIn]],
                         1).o

InitRefresh ==
    /\ \E n \in 1..MaxMowers :
          objs = << [LoggedIn EXCEPT !.mowers = SubSeq(OldMowers, 1, n),
                                     !.timestamp_last_update_mower_list = "today"] >>
    /\ husqvarna_api = 1
    /\ fr = [t \in Threads |-> IdleFrame]
    /\ now = 1
    /\ plugin = HusqvarnaPlugin
    /\ ncalls = 0
    /\ env = NoCallbacks

RefreshCall ==
    /\ ncalls = 0 /\ ~Busy("worker")
    /\ ncalls' = 1
    /\ Apply("worker", Invoke(objs[husqvarna_api],
                              [IdleFrame EXCEPT !.op = "get_mowers_info",
                                                !.self = husqvarna_api],
                              now))
    /\ UNCHANGED <<husqvarna_api, now, plugin, env>>

NextRefresh ==
    \/ RefreshCall
    \/ HttpResponse("worker")
    \/ HttpWakeUp("worker")
    \/ HttpReturn("worker")

SpecRefresh == InitRefresh /\ [][NextRefresh]_vars

\* The detail call of the refresh has returned to _get_mower_detailed_info.
DetailReturned ==
    /\ W.op = "get_mowers_info" /\ W.phase = "main" /\ W.http = "returned"
    /\ W.rv.tag # "raise"
DetailOk == W.rv.tag = "json" /\ W.rv.val.hasdata

AtLimitTest ==
    /\ plugin.cpc = "hb490" /\ husqvarna_api # 0
    /\ plugin.system_retries <= 5
    /\ are_api_limits_reached(objs[husqvarna_api])
\* The caller leaves that test.
LeavesLimitTest == plugin.cpc = "hb490" /\ plugin'.cpc # "hb490"
SlowedForLimits(p) ==
    p.cpc = "idle" /\ p.speed_status = "LIMITS_EXCEEDED" /\ p.run_again >= 60 * MINUTE

\* C15: on a tick that finds the rate-limit flag set and every device OFF
\* (at most 5 failures), _adjust_update_frequency selects LIMITS_EXCEEDED
\* with a delay of at least 60 minutes, not the all-off regime.
C15_LimitsBeforeAllOff ==
    [][ ( /\ AtLimitTest /\ LeavesLimitTest
          /\ objs[husqvarna_api].mowers # <<>>
          /\ are_all_mowers_off(objs[husqvarna_api]) )
            => SlowedForLimits(plugin') ]_vars

\* The worker's last login, list or status call has ended in failure
\* (system_retries counts the failures since the last success), and the
\* worker waits at queue.get.
WorkerEndedRateLimited == plugin.wpc = "get" /\ plugin.system_retries >= 1

\* C16: when a worker call has ended with 429, the next scheduling tick (at
\* most 5 failures, no worker call in between) observes the flag set and
\* sets a delay of at least 60 minutes.  (Stated at the scheduler's test of
\* the flag, with the flag still set when the caller arrives there.)
C16_SchedulerObserves429 ==
    [][ ( /\ AtLimitTest /\ LeavesLimitTest
          /\ WorkerEndedRateLimited
          /\ plugin'.wpc = "get" )
            => SlowedForLimits(plugin') ]_vars

(***************************************************************************)
(* SpecSchedule: one run of _adjust_update_frequency on the caller thread,  *)
(* for every failure count, flag, registry and hour, against a token        *)
(* endpoint that answers the requests of the truth tests.                   *)
(***************************************************************************)
Hours == 0..23
\* hours >= 22 or hours <= 5
IsNight(hours) == hours >= 22 \/ hours <= 5

ScheduleMower(n, s, a) ==
    [id |-> "id" \o n, name |-> n, state |-> s, activity |-> a, cutting_height |-> 1,
     error_state |-> NoneVal]
\* Registries as status refreshes leave them.
ScheduleRegistries ==
    { <<>>,
      << ScheduleMower("A", STATE_OFF, "NOT_APPLICABLE") >>,
      << ScheduleMower("A", "IN_OPERATION", "MOWING") >>,
      << ScheduleMower("A", "IN_OPERATION", "GOING_HOME") >>,
      << ScheduleMower("A", STATE_OFF, "NOT_APPLICABLE"),
         ScheduleMower("B", "IN_OPERATION", "GOING_HOME") >> }

\* env also keeps what the tick found: the hour it reads and the flag.
InitSchedule ==
    /\ \E mowers \in ScheduleRegistries, flag \in BOOLEAN, hours \in Hours,
          retries \in 0..MaxSystemRetries :
          /\ objs = << [LoggedIn EXCEPT !.mowers = mowers,
                                        !.timestamp_last_update_mower_list = "today",
                                        !.api_limit_reached = flag] >>
          /\ plugin = [HusqvarnaPlugin EXCEPT !.started = TRUE, !.run_again = 0,
                                              !.system_retries = retries]
          /\ env = [heartbeats |-> 0, commands |-> 0, stops |-> 0, faults |-> 0,
                    hours |-> hours, flag |-> flag]
    /\ husqvarna_api = 1
    /\ fr = [t \in Threads |-> IdleFrame]
    /\ now = 1
    /\ ncalls = 0

\* on_heartbeat arrives at self._adjust_update_frequency().
ScheduleTick ==
    /\ plugin.cpc = "idle" /\ env.heartbeats = 0
    /\ env' = [env EXCEPT !.heartbeats = 1]
    /\ Commit(EnterCaller([Cur EXCEPT !.p = Adjust(plugin, husqvarna_api, objs,
                                                   IsNight(env.hours))]))
    /\ UNCHANGED <<now, ncalls>>

\* The token request of a truth test ends, and the scheduler runs on.
ScheduleResponse ==
    /\ fr["caller"].http = "inflight"
    /\ \E out \in PluginOutcomes(fr["caller"].kind) :
          /\ out.status \in RetryableStatus => env.faults < MaxFaults
          /\ env' = [env EXCEPT !.faults = IF out.status \in RetryableStatus
                                            THEN @ + 1 ELSE @]
          /\ Commit(RunCaller(Leave(Cur, "caller",
                                    HttpOnResponse(objs[fr["caller"].self], fr["caller"], out)),
                              IsNight(env.hours)))
    /\ UNCHANGED <<now, ncalls>>

NextSchedule ==
    \/ ScheduleTick
    \/ ScheduleResponse
    \/ PluginHttpWakeUp("caller")

SpecSchedule == InitSchedule /\ [][NextSchedule]_vars

\* The delay d follows the first matching rule for what the tick found.
FirstMatchingRule(d) ==
    LET mowers == objs[husqvarna_api].mowers
        failures == plugin.system_retries
        base == MINUTE * Mode5
    IN  IF failures > 5 THEN d = Min(12 * 60 * MINUTE, failures * base)
        ELSE IF env.flag THEN d >= 60 * MINUTE
        ELSE IF \A i \in 1..Len(mowers) : mowers[i].state = STATE_OFF THEN d = 60 * MINUTE
        ELSE IF \E i \in 1..Len(mowers) : mowers[i].activity = "GOING_HOME" THEN d = base \div 2
        ELSE IF env.hours \in {22, 23} \cup 0..5 THEN d = 180 * MINUTE
        ELSE d = base

\* C17: for every combination of failure count, rate-limit flag, all-off,
\* homing, hour and base interval, the delay _adjust_update_frequency has
\* computed when it returns equals the first matching rule of: failures > 5
\* -> min(12 h, failures x base); flag -> at least 60 min; all OFF -> 60 min;
\* homing -> base / 2; hour in 22..23 or 0..5 -> 180 min; otherwise base.
C17_DelayIsFirstMatchingRule ==
    (env.heartbeats = 1 /\ plugin.cpc = "idle") => FirstMatchingRule(plugin.run_again)

(***************************************************************************)
(* SpecCutting: the plugin after start-up with one device that is not OFF:  *)
(* Domoticz sets a level of the cutting height selector, the worker sends   *)
(* it, heartbeats ask for status refreshes.  The service keeps the cutting  *)
(* height it has accepted and reports it in the device's details.           *)
(***************************************************************************)
\* The levels of the selector: 0, 10, ..., 10 * (steps - 1).
SelectorLevels == { 10 * (i - 1) : i \in 1..MaxSteps }

CuttingDetail(h) == DetailOf("IN_OPERATION", "MOWING", h)

\* env also keeps the last level Domoticz has set (level), the service's
\* cutting height (stored) and the level whose step the service has accepted
\* (acked); -1: none.
InitCutting ==
    /\ objs = << [LoggedIn EXCEPT
                    !.mowers = << [id |-> "idA", name |-> "A", state |-> "IN_OPERATION",
                                   activity |-> "MOWING", cutting_height |-> 1,
                                   error_state |-> NoneVal] >>,
                    !.timestamp_last_update_mower_list = "today"] >>
    /\ husqvarna_api = 1
    /\ fr = [t \in Threads |-> IdleFrame]
    /\ now = 1
    /\ plugin = [HusqvarnaPlugin EXCEPT !.started = TRUE,
                                        !.execution_status["A"] = ExecutionState,
                                        !.Devices["A"] = "ok",
                                        !.CUTTING["A"] = 0]
    /\ ncalls = 0
    /\ env = [heartbeats |-> 0, commands |-> 0, stops |-> 0, faults |-> 0,
              level |-> -1, stored |-> 1, acked |-> -1]

\* Domoticz: onCommand(A, UnitId.CUTTING, 'Set Level', L)
CuttingCommand ==
    /\ plugin.cpc = "idle" /\ plugin.wpc = "get" /\ plugin.tasks_queue = <<>>
    /\ env.commands < MaxCommands
    /\ \E L \in SelectorLevels :
          /\ plugin' = on_command(plugin, husqvarna_api, objs, "A", UnitCUTTING,
                                  "Set Level", L)
          /\ env' = [env EXCEPT !.commands = @ + 1, !.level = L]
    /\ UNCHANGED <<objs, husqvarna_api, fr, now, ncalls>>

\* The answers of the service: a settings request that is accepted changes
\* the cutting height, a detail request reports it.
CuttingOutcomes(kind) ==
    IF kind = "detail"
    THEN { [status |-> "2xx", body |-> "json", val |-> CuttingDetail(env.stored)] }
           \cup { out \in PluginOutcomes(kind) : out.status # "2xx" }
    ELSE PluginOutcomes(kind)

CuttingResponse(t) ==
    /\ fr[t].http = "inflight"
    /\ \E out \in CuttingOutcomes(fr[t].kind), night \in Nights(t) :
          LET accepted == fr[t].kind = "settings" /\ out.status = "2xx"
          IN  /\ out.status \in RetryableStatus => env.faults < MaxFaults
              /\ env' = [env EXCEPT !.faults = IF out.status \in RetryableStatus
                                                THEN @ + 1 ELSE @,
                                    !.stored = IF accepted THEN fr[t].height ELSE @,
                                    !.acked = IF accepted THEN env.level ELSE @]
              /\ Commit(Run(t, Leave(Cur, t, HttpOnResponse(objs[fr[t].self], fr[t], out)),
                            night))
    /\ UNCHANGED <<now, ncalls>>

NextCutting ==
    \/ CuttingCommand
    \/ OnHeartbeat
    \/ WorkerGet
    \/ \E t \in Threads : CuttingResponse(t)
    \/ \E t \in Threads : PluginHttpWakeUp(t)

SpecCutting == InitCutting /\ [][NextCutting]_vars

\* This step ends a status refresh that succeeded: the sink is updated.
RefreshPushed ==
    plugin.wpc = "gs_call" /\ plugin'.wpc = "get" /\ plugin'.system_retries = 0

\* C18: round trip of the cutting height.  For every selector level L in
\* {0, 10, ..., 10*(steps-1)} the step sent by set_cutting_height is
\* S = L/10 + 1, and once the service has accepted it, a status refresh that
\* reads cuttingHeight = S back pushes level 10*(S-1) = L to the sink.
C18_CuttingHeightRoundTrip ==
    [][ /\ fr'["worker"].kind = "settings"
            => fr'["worker"].height = (env'.level \div 10) + 1
        /\ (RefreshPushed /\ env.acked >= 0) => plugin'.CUTTING["A"] = env.acked
      ]_vars
\* Level 20 was set, accepted as step 3, read back and pushed as level 20.
C18_Witness ==
    /\ env.level = 20 /\ env.acked = 20 /\ env.stored = 3
    /\ objs[husqvarna_api].mowers[1].cutting_height = 3
    /\ plugin.CUTTING["A"] = 20

\* C20: across any run that ends with shutdown (on_stop once or twice, any
\* number of login tasks, token endpoint reachable or not at shutdown), every
\* HTTP session the plugin created is closed exactly once.
C20_EverySessionClosedOnce ==
    plugin.wpc = "exited" => \A i \in 1..Len(objs) : objs[i].closed = 1

(***************************************************************************)
(* SpecStop: shutdown of a plugin that is logged in, with tasks still       *)
(* queued, against a service whose answers may also be 2xx with a body that *)
(* is not JSON.  The worker thread is scheduled (weak fairness of its step  *)
(* from queue.get and of the end of its sleeps) and every HTTP call ends by *)
(* a response or a timeout (no request of the worker stays in flight for    *)
(* ever).                                                                   *)
(***************************************************************************)
\* What the queue holds when on_stop is called.
StopQueues == { <<>>,
                << Task(GET_STATUS, NoneVal, 0) >>,
                << Task(GET_MOWERS, NoneVal, 0), Task(GET_STATUS, NoneVal, 0) >>,
                << Task(START, "A", 0) >> }

InitStop ==
    /\ objs = << [LoggedIn EXCEPT
                    !.mowers = << [id |-> "idA", name |-> "A", state |-> "IN_OPERATION",
                                   activity |-> "MOWING", cutting_height |-> 1,
                                   error_state |-> NoneVal] >>,
                    !.timestamp_last_update_mower_list = "today"] >>
    /\ husqvarna_api = 1
    /\ fr = [t \in Threads |-> IdleFrame]
    /\ now = 1
    /\ \E q \in StopQueues :
          plugin = [HusqvarnaPlugin EXCEPT !.started = TRUE,
                                           !.execution_status["A"] = ExecutionState,
                                           !.Devices["A"] = "ok",
                                           !.tasks_queue = q,
                                           !.unfinished_tasks = Len(q)]
    /\ ncalls = 0
    /\ env = NoCallbacks

StopOutcomes(kind) ==
    PluginOutcomes(kind) \cup { [status |-> "2xx", body |-> "nonjson", val |-> 0] }

\* A request of the worker ends, and the worker runs on.
StopResponse ==
    /\ fr["worker"].http = "inflight"
    /\ \E out \in StopOutcomes(fr["worker"].kind) :
          /\ out.status \in RetryableStatus => env.faults < MaxFaults
          /\ env' = [env EXCEPT !.faults = IF out.status \in RetryableStatus
                                            THEN @ + 1 ELSE @]
          /\ Commit(RunWorker(Leave(Cur, "worker",
                                    HttpOnResponse(objs[fr["worker"].self],
                                                   fr["worker"], out))))
    /\ UNCHANGED <<now, ncalls>>

NextStop ==
    \/ OnStop
    \/ OnStopReturns
    \/ WorkerGet
    \/ StopResponse
    \/ PluginHttpWakeUp("worker")

SpecStop ==
    /\ InitStop /\ [][NextStop]_vars
    /\ WF_vars(WorkerGet)
    /\ WF_vars(PluginHttpWakeUp("worker"))
    /\ []<>(fr["worker"].http # "inflight")

\* C19: after on_stop has queued the sentinel, the worker eventually handles
\* every task queued before it, then takes the sentinel and its loop exits
\* (every HTTP call ends); also when on_stop is called twice.
C19_WorkerExitsAfterStop ==
    /\ plugin.stop_requested ~> plugin.wpc = "exited"
    /\ [](plugin.wpc = "exited"
            => \A i \in 1..Len(plugin.tasks_queue) : plugin.tasks_queue[i] = Sentinel)

\* The worker is between two tasks (or has left its loop).
BetweenTasks == plugin.wpc \in {"get", "exited"}

\* C21: every task the worker dequeues, the sentinel and tasks whose handling
\* raises included, is marked complete exactly once: the unfinished-task
\* count equals the tasks put minus the tasks fully handled (those still
\* queued plus the one being handled) and no task gets a second task_done.
C21_TaskDoneExactlyOnce ==
    /\ plugin.unfinished_tasks =
           Len(plugin.tasks_queue) + (IF BetweenTasks THEN 0 ELSE 1)
    /\ plugin.task_dones <= 1
    /\ ~BetweenTasks => plugin.task_dones = 0

\* C22: when the handling of a task that is not the sentinel raises, the
\* worker loop catches the exception and is back at queue.get for the next
\* task; the worker leaves its loop only on dequeuing the sentinel.
C22_RaiseDoesNotStopWorker ==
    [][ /\ (~BetweenTasks /\ plugin.task # Sentinel /\ plugin'.caught)
              => plugin'.wpc = "get"
        /\ (plugin.wpc # "exited" /\ plugin'.wpc = "exited")
              => \/ plugin.wpc = "stop_bool"
                 \/ /\ plugin.wpc = "get" /\ plugin.tasks_queue # <<>>
                    /\ Head(plugin.tasks_queue) = Sentinel
      ]_vars
\* A task raised before any sentinel was queued; the worker waits for a task.
C22_Witness ==
    plugin.caught /\ plugin.wpc = "get" /\ env.stops = 0 /\ ~plugin.stop_requested

(***************************************************************************)
(* SpecRetry: the plugin after start-up with one device that is not OFF:    *)
(* Domoticz sends one command, heartbeats and the worker interleave, the    *)
(* service answers anything (the device stays switched on).                 *)
(***************************************************************************)
\* env also counts the command tasks the worker has taken from the queue.
InitRetry ==
    /\ objs = << [LoggedIn EXCEPT
                    !.mowers = << [id |-> "idA", name |-> "A", state |-> "IN_OPERATION",
                                   activity |-> "MOWING", cutting_height |-> 1,
                                   error_state |-> NoneVal] >>,
                    !.timestamp_last_update_mower_list = "today"] >>
    /\ husqvarna_api = 1
    /\ fr = [t \in Threads |-> IdleFrame]
    /\ now = 1
    /\ plugin = [HusqvarnaPlugin EXCEPT !.started = TRUE,
                                        !.execution_status["A"] = ExecutionState,
                                        !.Devices["A"] = "ok"]
    /\ ncalls = 0
    /\ env = [heartbeats |-> 0, commands |-> 0, stops |-> 0, faults |-> 0, sent |-> 0]

IsCommandTask(task) ==
    task # Sentinel /\ task.Action \notin {LOGIN, GET_MOWERS, GET_STATUS}

RetryCommand ==
    /\ plugin.cpc = "idle"
    /\ env.commands < MaxCommands
    /\ env' = [env EXCEPT !.commands = @ + 1]
    /\ \E c \in PluginCommands :
          plugin' = on_command(plugin, husqvarna_api, objs, "A", c[1], c[2], c[3])
    /\ UNCHANGED <<objs, husqvarna_api, fr, now, ncalls>>

RetryHeartbeat ==
    /\ plugin.cpc = "idle"
    /\ env.heartbeats < MaxTicks
    /\ env' = [env EXCEPT !.heartbeats = @ + 1]
    /\ Commit(EnterCaller([Cur EXCEPT !.p = on_heartbeat(plugin, husqvarna_api, objs, FALSE)]))
    /\ UNCHANGED <<now, ncalls>>

RetryWorkerGet ==
    /\ plugin.wpc = "get" /\ plugin.tasks_queue # <<>>
    /\ env' = [env EXCEPT !.sent = IF IsCommandTask(Head(plugin.tasks_queue))
                                   THEN @ + 1 ELSE @]
    /\ Commit(RunWorker(EnterWorker(Dequeue(Cur))))
    /\ UNCHANGED <<now, ncalls>>

RetryOutcomes(kind) ==
    { out \in PluginOutcomes(kind) :
        (kind = "detail" /\ out.status = "2xx") => out.val.state # STATE_OFF }

RetryResponse(t) ==
    /\ fr[t].http = "inflight"
    /\ \E out \in RetryOutcomes(fr[t].kind) :
          /\ out.status \in RetryableStatus => env.faults < MaxFaults
          /\ env' = [env EXCEPT !.faults = IF out.status \in RetryableStatus
                                            THEN @ + 1 ELSE @]
          /\ Commit(Run(t, Leave(Cur, t, HttpOnResponse(objs[fr[t].self], fr[t], out)), FALSE))
    /\ UNCHANGED <<now, ncalls>>

NextRetry ==
    \/ RetryCommand
    \/ RetryHeartbeat
    \/ RetryWorkerGet
    \/ \E t \in Threads : RetryResponse(t)
    \/ \E t \in Threads : PluginHttpWakeUp(t)

SpecRetry == InitRetry /\ [][NextRetry]_vars

\* C23: every command is handed to the worker at most three times (the first
\* attempt and two retries), its retry count never exceeds 2, and a command
\* that has not succeeded is never lost: while its status is INITIATED a task
\* for it is queued or in the worker's hands, so that a command whose
\* attempts all fail ends in ERROR with retry count 2.
CommandInHand ==
    \/ \E i \in 1..Len(plugin.tasks_queue) : IsCommandTask(plugin.tasks_queue[i])
    \/ ~BetweenTasks /\ IsCommandTask(plugin.task)
C23_RetryCap ==
    /\ env.sent <= 3
    /\ plugin.execution_status["A"].retries <= 2
C23_NoCommandDropped ==
    plugin.execution_status["A"].status = "INITIATED" => CommandInHand
C23_BoundedRetriesEndInError == C23_RetryCap /\ C23_NoCommandDropped
C23_ThreeSends == env.sent = 3 /\ plugin.execution_status["A"].status = "ERROR"
                    /\ plugin.execution_status["A"].retries = 2

\* C24: whenever the worker completes a status-refresh task that did not
\* succeed (the truth test of the client failed or raised, get_mowers_info
\* returned False or raised), every existing widget is marked timed out by
\* the time the task is completed.
StatusTaskFailed ==
    /\ plugin.task # Sentinel /\ plugin.task.Action = GET_STATUS
    /\ plugin'.wpc = "get"
    /\ \/ plugin.wpc = "gs_bool"
       \/ plugin.wpc = "gs_call" /\ (plugin'.caught \/ plugin'.system_retries # 0)
AllTimedOut(p) == \A n \in MowerNames : p.Devices[n] \in {"absent", "timedout"}
C24_FailedStatusTimesOut == [][StatusTaskFailed => AllTimedOut(plugin')]_vars
\* The part the handler covers: get_mowers_info returned False.
C24_FailedDetailTimesOut ==
    [][(StatusTaskFailed /\ plugin.wpc = "gs_call" /\ ~plugin'.caught)
         => AllTimedOut(plugin')]_vars

\* C25: no step of the Domoticz callback thread (on_heartbeat with its retry
\* pass and regime adjustment, on_command) changes the device collection,
\* the access token, the session headers, the error string or the rate-limit
\* flag of a client instance: these are written by the worker thread only.
ClientData(o) == [mowers |-> o.mowers, access_token |-> o.access_token,
                  headers |-> o.headers, error |-> o.error,
                  api_limit_reached |-> o.api_limit_reached]
CallerStep == fr'["caller"] # fr["caller"] \/ plugin'.cpc # plugin.cpc
C25_OnlyWorkerWritesClient ==
    [][CallerStep => /\ Len(objs') = Len(objs)
                     /\ \A i \in 1..Len(objs) : ClientData(objs'[i]) = ClientData(objs[i])]_vars

\* C26: no public operation of the client (get_mowers, get_mowers_info, the
\* actions, set_cutting_height, set_headlight) raises, whatever the token
\* state and whatever the server answers: it returns True or False.
PublicOps == ClientOps \ {"bool"}
C26_PublicOperationsNeverRaise ==
    \A t \in Threads : fr[t].op \in PublicOps => fr[t].ret # "raised"

(***************************************************************************)
(* SpecList: the worker handles list-refresh tasks of a plugin that already *)
(* tracks commands: the registry holds A, the states of A and B are any.    *)
(***************************************************************************)
TrackedStates ==
    [present : {TRUE}, status : {NoneVal, "INITIATED", "DONE", "ERROR"},
     action : {ACTION_START}, Cutting_height : {0}, retries : {0, 2}]
     \cup {ExecutionState}

InitList ==
    /\ objs = << [LoggedIn EXCEPT
                    !.mowers = << [id |-> "idA", name |-> "A", state |-> "IN_OPERATION",
                                   activity |-> "MOWING", cutting_height |-> 1,
                                   error_state |-> NoneVal] >>] >>
    /\ husqvarna_api = 1
    /\ fr = [t \in Threads |-> IdleFrame]
    /\ now = 1
    /\ \E a \in TrackedStates, b \in TrackedStates \cup {NoExecutionState} :
          plugin = put([HusqvarnaPlugin EXCEPT !.started = TRUE,
                                               !.execution_status["A"] = a,
                                               !.execution_status["B"] = b,
                                               !.Devices["A"] = "ok"],
                       Task(GET_MOWERS, NoneVal, 0))
    /\ ncalls = 0
    /\ env = NoCallbacks

ListOutcomes(kind) ==
    IF kind = "list"
    THEN { out \in Outcomes(kind) : out.body \in {"json", "message", "none"} }
    ELSE PluginOutcomes(kind)

ListResponse ==
    /\ fr["worker"].http = "inflight"
    /\ \E out \in ListOutcomes(fr["worker"].kind) :
          /\ out.status \in RetryableStatus => env.faults < MaxFaults
          /\ env' = [env EXCEPT !.faults = IF out.status \in RetryableStatus
                                            THEN @ + 1 ELSE @]
          /\ Commit(RunWorker(Leave(Cur, "worker",
                                    HttpOnResponse(objs[fr["worker"].self],
                                                   fr["worker"], out))))
    /\ UNCHANGED <<now, ncalls>>

NextList ==
    \/ WorkerGet
    \/ ListResponse
    \/ PluginHttpWakeUp("worker")

SpecList == InitList /\ [][NextList]_vars

\* C27: a list refresh leaves the ExecutionState of every name that had one
\* exactly as it was, and a name that had none gets at most a fresh
\* ExecutionState().
ListRefreshStep == plugin.wpc = "gm_call" /\ plugin'.wpc = "get"
C27_ListRefreshKeepsStates ==
    [][ListRefreshStep =>
          \A n \in MowerNames :
              IF plugin.execution_status[n].present
              THEN plugin'.execution_status[n] = plugin.execution_status[n]
              ELSE plugin'.execution_status[n] \in {NoExecutionState, ExecutionState}]_vars
\* The list was refreshed with A and B: A's failed command is still tracked,
\* B got its fresh state.
C27_Witness ==
    /\ plugin.wpc = "get" /\ plugin.tasks_queue = <<>>
    /\ objs[1].timestamp_last_update_mower_list # "2000-01-01"
    /\ Len(objs[1].mowers) = 2
    /\ plugin.execution_status["A"].status = "ERROR"
    /\ plugin.execution_status["A"].retries = 2
    /\ plugin.execution_status["B"] = ExecutionState

(***************************************************************************)
(* SpecOutage: the service fails every list and detail request (the token   *)
(* endpoint answers anything), so that every task of every polling tick     *)
(* fails.  A heartbeat arrives when the worker has handled the tasks of the *)
(* tick before.                                                             *)
(***************************************************************************)
\* env counts the polling ticks and notes a failed token request.
InitOutage ==
    /\ objs = << [LoggedIn EXCEPT
                    !.mowers = << [id |-> "idA", name |-> "A", state |-> "IN_OPERATION",
                                   activity |-> "MOWING", cutting_height |-> 1,
                                   error_state |-> NoneVal] >>,
                    !.timestamp_last_update_mower_list = "today"] >>
    /\ husqvarna_api = 1
    /\ fr = [t \in Threads |-> IdleFrame]
    /\ now = 1
    /\ plugin = [HusqvarnaPlugin EXCEPT !.started = TRUE,
                                        !.execution_status["A"] = ExecutionState,
                                        !.Devices["A"] = "ok"]
    /\ ncalls = 0
    /\ env = [heartbeats |-> 0, commands |-> 0, stops |-> 0, faults |-> 0,
              polls |-> 0, tokfail |-> FALSE]

OutageHeartbeat ==
    /\ plugin.cpc = "idle" /\ plugin.wpc = "get" /\ plugin.tasks_queue = <<>>
    /\ env.polls < MaxPolls
    /\ env' = [env EXCEPT !.polls = IF plugin.run_again - 1 <= 0 THEN @ + 1 ELSE @]
    /\ Commit(EnterCaller([Cur EXCEPT !.p = on_heartbeat(plugin, husqvarna_api, objs, FALSE)]))
    /\ UNCHANGED <<now, ncalls>>

OutageOutcomes(kind) ==
    { out \in PluginOutcomes(kind) : kind # "token" => out.status # "2xx" }

OutageResponse(t) ==
    /\ fr[t].http = "inflight"
    /\ \E out \in OutageOutcomes(fr[t].kind) :
          /\ out.status \in RetryableStatus => env.faults < MaxFaults
          /\ env' = [env EXCEPT !.faults = IF out.status \in RetryableStatus
                                            THEN @ + 1 ELSE @,
                                !.tokfail = @ \/ (fr[t].kind = "token"
                                                    /\ out.status = "429")]
          /\ Commit(Run(t, Leave(Cur, t, HttpOnResponse(objs[fr[t].self], fr[t], out)), FALSE))
    /\ UNCHANGED <<now, ncalls>>

NextOutage ==
    \/ OutageHeartbeat
    \/ WorkerGet
    \/ \E t \in Threads : OutageResponse(t)
    \/ \E t \in Threads : PluginHttpWakeUp(t)

SpecOutage == InitOutage /\ [][NextOutage]_vars

\* C28: once the tasks of more than 5 consecutive polling ticks have all
\* failed, system_retries exceeds 5, and the tick that follows selects the
\* system-error regime with the delay min(12 h, system_retries x base).
WorkerDone == plugin.cpc = "idle" /\ plugin.wpc = "get" /\ plugin.tasks_queue = <<>>
SystemErrorSelected ==
    /\ plugin.speed_status = "SYSTEM_ERROR"
    /\ plugin.run_again <= Min(12 * 60 * MINUTE, plugin.system_retries * MINUTE * Mode5)
FailuresCounted ==
    /\ (env.polls >= 6 /\ WorkerDone) => plugin.system_retries > 5
    /\ (env.polls >= 7 /\ plugin.cpc = "idle") => SystemErrorSelected
C28_OutageSelectsSystemError == FailuresCounted
\* The same while every token request is served.
C28_OutageWithTokenServed == ~env.tokfail => FailuresCounted

(***************************************************************************)
(* SpecRegime: successive runs of _adjust_update_frequency; between two     *)
(* ticks the worker's refreshes leave any registry, flag and failure count. *)
(***************************************************************************)
RegimeHours == {3, 12}
RegimeRetries == {0, 6}

InitRegime ==
    /\ objs = << [LoggedIn EXCEPT !.timestamp_last_update_mower_list = "today"] >>
    /\ husqvarna_api = 1
    /\ fr = [t \in Threads |-> IdleFrame]
    /\ now = 1
    /\ plugin = [HusqvarnaPlugin EXCEPT !.started = TRUE, !.run_again = 0]
    /\ ncalls = 0
    /\ env = [heartbeats |-> 0, commands |-> 0, stops |-> 0, faults |-> 0, hours |-> 12]

\* on_heartbeat arrives at self._adjust_update_frequency().
RegimeTick ==
    /\ plugin.cpc = "idle" /\ env.heartbeats < MaxTicks
    /\ \E mowers \in ScheduleRegistries, flag \in BOOLEAN, hours \in RegimeHours,
          retries \in RegimeRetries :
          LET O == [objs EXCEPT ![1].mowers = mowers, ![1].api_limit_reached = flag]
              p == [plugin EXCEPT !.system_retries = retries]
          IN  /\ env' = [env EXCEPT !.heartbeats = @ + 1, !.hours = hours]
              /\ Commit(EnterCaller([Cur EXCEPT !.objs = O,
                                                !.p = Adjust(p, husqvarna_api, O,
                                                             IsNight(hours))]))
    /\ UNCHANGED <<now, ncalls>>

RegimeResponse ==
    /\ fr["caller"].http = "inflight"
    /\ \E out \in PluginOutcomes(fr["caller"].kind) :
          /\ out.status \in RetryableStatus => env.faults < MaxFaults
          /\ env' = [env EXCEPT !.faults = IF out.status \in RetryableStatus
                                            THEN @ + 1 ELSE @]
          /\ Commit(RunCaller(Leave(Cur, "caller",
                                    HttpOnResponse(objs[fr["caller"].self], fr["caller"], out)),
                              IsNight(env.hours)))
    /\ UNCHANGED <<now, ncalls>>

NextRegime ==
    \/ RegimeTick
    \/ RegimeResponse
    \/ PluginHttpWakeUp("caller")

SpecRegime == InitRegime /\ [][NextRegime]_vars

\* C29: the run of _adjust_update_frequency logs its regime message iff the
\* regime it selects differs from the one the previous tick selected, the
\* homing speed-up included.
C29_LogIffRegimeChanges ==
    (plugin.tick.logged = "status") <=> (plugin.tick.regime # plugin.tick.prev)
\* The same for the regimes that speed_status records, while no tick ran the
\* homing speed-up.
C29_LogIffSpeedStatusChanges ==
    (plugin.tick.regime # "GOING_HOME" /\ plugin.tick.prev # "GOING_HOME")
       => ((plugin.tick.logged = "status") <=> (plugin.tick.regime # plugin.tick.prev))

\* C30: every HTTP request is preceded by the minimum inter-call delay, the
\* first attempt of a logical call and the calls that follow one another
\* inside one task included.
C30_EveryRequestIsDelayed ==
    \A t \in Threads : fr[t].http = "inflight" => fr[t].delay >= API_CALL_DELAY
\* The part the code provides: a retry is preceded by the delay.
C30_EveryRetryIsDelayed ==
    \A t \in Threads : (fr[t].http = "inflight" /\ fr[t].attempts > 1)
                          => fr[t].delay >= API_CALL_DELAY

\* C31: are_all_mowers_off is true for an empty collection, false for a
\* collection in which some device has a state other than OFF or no state
\* yet, and true when every device of a non-empty collection is OFF.
SomeNotOff(o) == \E i \in 1..Len(o.mowers) : o.mowers[i].state # STATE_OFF
C31_AllOffIffEveryStateOff ==
    \A k \in 1..Len(objs) :
        /\ objs[k].mowers = <<>> => are_all_mowers_off(objs[k])
        /\ SomeNotOff(objs[k]) => ~are_all_mowers_off(objs[k])
        /\ (objs[k].mowers # <<>> /\ ~SomeNotOff(objs[k])) => are_all_mowers_off(objs[k])
\* Two devices, the first one OFF, the second one listed but not yet fetched.
C31_Witness ==
    /\ Len(objs[1].mowers) = 2
    /\ objs[1].mowers[1].state = STATE_OFF
    /\ objs[1].mowers[2].state = NoneVal
    /\ ~are_all_mowers_off(objs[1])

\* C32: whatever the list responses, no two devices of a registry have the
\* same name.
C32_NamesAreUnique ==
    \A k \in 1..Len(objs) :
        \A i, j \in 1..Len(objs[k].mowers) :
            objs[k].mowers[i].name = objs[k].mowers[j].name => i = j

\* C33: whenever now is before the cached expiry instant and no token
\* request is under way, an access token is held and the session carries the
\* Authorization header of that token.
NoTokenRequest(k) == \A t \in Threads : ~(fr[t].self = k /\ fr[t].phase = "token")
C33_UsableBeforeExpiry ==
    \A k \in 1..Len(objs) :
        (now < objs[k].access_token_expiration /\ NoTokenRequest(k)) =>
            /\ objs[k].access_token.tag = "json"
            /\ objs[k].headers.authorization = objs[k].access_token.id

\* C34: when get_mowers succeeds, the device collection becomes exactly the
\* {id, name} pairs of the response, in its order: no device keeps or gets a
\* state, activity, cutting height or error state.
ListReturned ==
    /\ W.op = "get_mowers" /\ W.phase = "main" /\ W.http = "returned"
    /\ Truthy(W.rv)
C34_ListRefreshKeepsOnlyIdAndName ==
    [][ (ListReturned /\ fr' # fr) =>
          /\ Len(WObj'.mowers) = Len(W.rv.val)
          /\ \A i \in 1..Len(W.rv.val) :
                WObj'.mowers[i] = [id |-> W.rv.val[i].id, name |-> W.rv.val[i].name,
                                   state |-> NoneVal, activity |-> NoneVal,
                                   cutting_height |-> 0, error_state |-> NoneVal]
      ]_vars
\* The list call returns A while the registry holds A in ERROR with its
\* error state, fetched by a status refresh.
C34_Witness ==
    /\ ListReturned
    /\ W.rv.val = <<ListEntry("idA", "A")>>
    /\ Len(WObj.mowers) = 1
    /\ WObj.mowers[1].state = "ERROR"
    /\ WObj.mowers[1].error_state = "Outside working area"

\* C35: a device has an error state only while its state is ERROR, and a
\* detail response with a state other than ERROR leaves the device without
\* error state, whatever errorCode it carries.
ErrorStateOnlyInError ==
    \A k \in 1..Len(objs) : \A i \in 1..Len(objs[k].mowers) :
        objs[k].mowers[i].error_state # NoneVal => objs[k].mowers[i].state = "ERROR"
C36_Only2xxClearsFlag ==
    [][ \A k \in 1..Len(objs) :
          (Len(objs') >= k /\ objs[k].api_limit_reached /\ ~objs'[k].api_limit_reached) =>
              \E t \in Threads : /\ fr[t].self = k /\ fr[t].http = "inflight"
                                 /\ fr'[t].last = "2xx" ]_vars

(***************************************************************************)
(* SpecCommand: Domoticz sends one command for device A while a status      *)
(* refresh may still be queued; the worker is scheduled fairly and every    *)
(* request gets its answer.                                                 *)
(***************************************************************************)
InitCommand ==
    /\ objs = << [LoggedIn EXCEPT
                    !.mowers = << [id |-> "idA", name |-> "A", state |-> "IN_OPERATION",
                                   activity |-> "MOWING", cutting_height |-> 1,
                                   error_state |-> NoneVal] >>,
                    !.timestamp_last_update_mower_list = "today"] >>
    /\ husqvarna_api = 1
    /\ fr = [t \in Threads |-> IdleFrame]
    /\ now = 1
    /\ \E q \in {<<>>, <<Task(GET_STATUS, NoneVal, 0)>>} :
          plugin = [HusqvarnaPlugin EXCEPT !.started = TRUE,
                                           !.execution_status["A"] = ExecutionState,
                                           !.Devices["A"] = "ok",
                                           !.tasks_queue = q,
                                           !.unfinished_tasks = Len(q)]
    /\ ncalls = 0
    /\ env = NoCallbacks

NextCommand ==
    \/ RetryCommand
    \/ WorkerGet
    \/ PluginHttpResponse("worker")
    \/ PluginHttpWakeUp("worker")

SpecCommand ==
    /\ InitCommand /\ [][NextCommand]_vars
    /\ WF_vars(WorkerGet) /\ WF_vars(PluginHttpWakeUp("worker"))
    /\ []<>(fr["worker"].http # "inflight")

\* C37: a command that on_command has accepted (status INITIATED, its task
\* queued) eventually has the status DONE or ERROR.
C37_AcceptedCommandIsResolved ==
    (plugin.execution_status["A"].status = "INITIATED" /\ CommandInHand)
        ~> (plugin.execution_status["A"].status \in {"DONE", "ERROR"})

(***************************************************************************)
(* SpecRace: as SpecRetry, with a second command for the same device that   *)
(* may arrive while the first one is queued, in the worker's hands or       *)
(* failed.                                                                  *)
(***************************************************************************)
\* env also keeps the command task the worker executed last and whether that
\* execution failed.
InitRace ==
    /\ objs = << [LoggedIn EXCEPT
                    !.mowers = << [id |-> "idA", name |-> "A", state |-> "IN_OPERATION",
                                   activity |-> "MOWING", cutting_height |-> 1,
                                   error_state |-> NoneVal] >>,
                    !.timestamp_last_update_mower_list = "today"] >>
    /\ husqvarna_api = 1
    /\ fr = [t \in Threads |-> IdleFrame]
    /\ now = 1
    /\ plugin = [HusqvarnaPlugin EXCEPT !.started = TRUE,
                                        !.execution_status["A"] = ExecutionState,
                                        !.Devices["A"] = "ok"]
    /\ ncalls = 0
    /\ env = [heartbeats |-> 0, commands |-> 0, stops |-> 0, faults |-> 0, sent |-> 0,
              last |-> [task |-> Sentinel, failed |-> FALSE]]

RaceCommand ==
    /\ plugin.cpc = "idle"
    /\ env.commands < MaxRaceCommands
    /\ env' = [env EXCEPT !.commands = @ + 1]
    /\ \E c \in PluginCommands :
          plugin' = on_command(plugin, husqvarna_api, objs, "A", c[1], c[2], c[3])
    /\ UNCHANGED <<objs, husqvarna_api, fr, now, ncalls>>

RaceHeartbeat ==
    /\ plugin.cpc = "idle"
    /\ env.heartbeats < MaxRaceTicks
    /\ env' = [env EXCEPT !.heartbeats = @ + 1]
    /\ Commit(EnterCaller([Cur EXCEPT !.p = on_heartbeat(plugin, husqvarna_api, objs, FALSE)]))
    /\ UNCHANGED <<now, ncalls>>

RaceResponse(t) ==
    /\ fr[t].http = "inflight"
    /\ \E out \in RetryOutcomes(fr[t].kind) :
          LET S == Run(t, Leave(Cur, t, HttpOnResponse(objs[fr[t].self], fr[t], out)), FALSE)
              executed == t = "worker" /\ plugin.wpc = "cmd_call" /\ S.p.wpc = "get"
          IN  /\ out.status \in RetryableStatus => env.faults < MaxFaults
              /\ env' = [env EXCEPT
                           !.faults = IF out.status \in RetryableStatus THEN @ + 1 ELSE @,
                           !.last = IF executed
                                    THEN [task |-> plugin.task,
                                          failed |-> S.p.execution_status["A"].status = "ERROR"]
                                    ELSE @]
              /\ Commit(S)
    /\ UNCHANGED <<now, ncalls>>

NextRace ==
    \/ RaceCommand
    \/ RaceHeartbeat
    \/ RetryWorkerGet
    \/ \E t \in Threads : RaceResponse(t)
    \/ \E t \in Threads : PluginHttpWakeUp(t)

SpecRace == InitRace /\ [][NextRace]_vars

\* C38: every command task the retry pass queues is the command task the
\* worker executed last, and that execution failed.
RetryPassStep == CallerStep /\ env'.commands = env.commands
C38_RetryReissuesFailedCommand ==
    [][ RetryPassStep =>
          \A i \in (Len(plugin.tasks_queue) + 1)..Len(plugin'.tasks_queue) :
              IsCommandTask(plugin'.tasks_queue[i]) =>
                  /\ env.last.failed
                  /\ plugin'.tasks_queue[i] = env.last.task ]_vars

\* C39: whenever the worker sends a request to a list, detail, action or
\* settings endpoint, an access token is held and the session carries the
\* Authorization header of that token at that moment.
DataEndpoints == {"list", "detail", "action", "settings"}
WorkerSends ==
    /\ fr'["worker"] # fr["worker"]
    /\ fr'["worker"].http = "inflight"
    /\ fr'["worker"].kind \in DataEndpoints
C39_WorkerSendsWithHeldToken ==
    [][ WorkerSends =>
          LET o == objs'[fr'["worker"].self]
          IN  /\ o.access_token.tag = "json"
              /\ o.headers.authorization = o.access_token.id ]_vars
====
